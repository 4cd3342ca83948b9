--------------------------- MODULE PostProcProofs ---------------------------
(***************************************************************************)
(* The frames of a picture, for every set of frames, every use of the      *)
(* camera and any number of pictures: a frame is at one place, and the     *)
(* encoder reads it only while its job holds it.                           *)
(***************************************************************************)
EXTENDS PostProc, FiniteSetTheorems, SequenceTheorems, TLAPS

-----------------------------------------------------------------------------
(* Counting                                                                *)

OneIf(test) == IF test THEN 1 ELSE 0

LEMMA CountIsNat ==
    ASSUME NEW S, NEW s \in Seq(S), NEW x
    PROVE  Count(s, x) \in Nat /\ IsFiniteSet({i \in DOMAIN s : s[i] = x})
<1> DEFINE at == {i \in DOMAIN s : s[i] = x}
<1>1. at \in SUBSET (1 .. Len(s)) /\ Len(s) \in Nat
  BY LenProperties
<1> HIDE DEF at
<1>2. IsFiniteSet(1 .. Len(s))
  BY <1>1, FS_Interval
<1>3. IsFiniteSet(at)
  BY <1>1, <1>2, FS_Subset
<1>4. Cardinality(at) \in Nat
  BY <1>3, FS_CardinalityType
<1> QED  BY <1>3, <1>4 DEF Count, at

LEMMA CountNone ==
    ASSUME NEW x
    PROVE  Count(<<>>, x) = 0
<1>1. {i \in DOMAIN <<>> : <<>>[i] = x} = {}
  OBVIOUS
<1> QED  BY <1>1, FS_EmptySet DEF Count

LEMMA CountOne ==
    ASSUME NEW x, NEW y
    PROVE  Count(<<y>>, x) = OneIf(y = x)
<1> DEFINE at == {i \in DOMAIN <<y>> : <<y>>[i] = x}
<1>1. at = IF y = x THEN {1} ELSE {}
  OBVIOUS
<1> HIDE DEF at
<1>2. Cardinality(at) = OneIf(y = x)
  BY <1>1, FS_Singleton, FS_EmptySet DEF OneIf
<1> QED  BY <1>2 DEF Count, at

\* The places of x in t are moved by the length of s.
LEMMA CountConcat ==
    ASSUME NEW S, NEW s \in Seq(S), NEW t \in Seq(S), NEW x
    PROVE  Count(s \o t, x) = Count(s, x) + Count(t, x)
<1> DEFINE n == Len(s)
           r == s \o t
           inS == {i \in DOMAIN s : s[i] = x}
           inT == {i \in DOMAIN t : t[i] = x}
           moved == {i \in DOMAIN r : i > n /\ r[i] = x}
           all == {i \in DOMAIN r : r[i] = x}
           move == [i \in inT |-> i + n]
<1>1. /\ n \in Nat /\ Len(t) \in Nat /\ DOMAIN s = 1 .. n /\ DOMAIN t = 1 .. Len(t)
      /\ DOMAIN r = 1 .. n + Len(t)
      /\ \A i \in 1 .. n + Len(t) : r[i] = IF i <= n THEN s[i] ELSE t[i - n]
  BY ConcatProperties, LenProperties
<1>2. /\ IsFiniteSet(inS) /\ IsFiniteSet(inT)
      /\ Count(s, x) = Cardinality(inS) /\ Count(t, x) = Cardinality(inT)
      /\ Count(s, x) \in Nat /\ Count(t, x) \in Nat
  BY CountIsNat DEF Count
<1> HIDE DEF n, r
<1>3. ASSUME NEW i \in inT PROVE i + n \in moved /\ i \in Nat
  BY <1>1
<1>4. ASSUME NEW k \in moved PROVE k - n \in inT /\ (k - n) + n = k
  BY <1>1
<1>5. all = inS \cup moved /\ inS \cap moved = {}
  BY <1>1
<1> HIDE DEF inS, inT, moved, all
<1>6. move \in Bijection(inT, moved)
  <2>1. move \in [inT -> moved]
    BY <1>3
  <2>2. \A i, j \in inT : move[i] = move[j] => i = j
    BY <1>1, <1>3
  <2>3. \A k \in moved : \E i \in inT : move[i] = k
    BY <1>4
  <2> QED  BY <2>1, <2>2, <2>3 DEF Bijection, Injection, Surjection, IsInjective
<1>7. IsFiniteSet(moved) /\ Cardinality(moved) = Cardinality(inT)
  BY <1>2, <1>6, FS_Bijection DEF ExistsBijection
<1>8. Cardinality(all) = Cardinality(inS) + Cardinality(moved)
  <2>1. Cardinality(inS \cap moved) = 0
    BY <1>5, FS_EmptySet
  <2>2. Cardinality(all) = Cardinality(inS) + Cardinality(moved) - Cardinality(inS \cap moved)
    BY <1>2, <1>5, <1>7, FS_Union
  <2> QED  BY <1>2, <1>7, <2>1, <2>2
<1> QED  BY <1>2, <1>7, <1>8 DEF Count, all, r

LEMMA CountAppended ==
    ASSUME NEW S, NEW s \in Seq(S), NEW e \in S, NEW x
    PROVE  Count(Append(s, e), x) = Count(s, x) + OneIf(e = x)
<1>1. Append(s, e) = s \o <<e>> /\ <<e>> \in Seq(S)
  BY AppendIsConcat
<1>2. Count(s \o <<e>>, x) = Count(s, x) + Count(<<e>>, x)
  BY <1>1, CountConcat
<1> QED  BY <1>1, <1>2, CountOne

\* A sequence is its first element and the rest,
LEMMA CountTaken ==
    ASSUME NEW S, NEW s \in Seq(S), s # <<>>, NEW x
    PROVE  /\ Head(s) \in S /\ Tail(s) \in Seq(S)
           /\ Count(s, x) = Count(Tail(s), x) + OneIf(Head(s) = x)
<1>1. Head(s) \in S /\ Tail(s) \in Seq(S) /\ <<Head(s)>> \in Seq(S) /\ Head(s) = s[1]
  BY HeadTailProperties
<1>2. <<Head(s)>> \o Tail(s) = s
  <2>1. Len(s) \in Nat \ {0}
    BY EmptySeq
  <2>2. SubSeq(s, 1, Len(s)) = <<s[1]>> \o SubSeq(s, 2, Len(s))
    BY <2>1, SubSeqRecursiveFirst
  <2> QED  BY <1>1, <2>2, SubSeqFull, TailIsSubSeq
<1>3. Count(s, x) = Count(<<Head(s)>>, x) + Count(Tail(s), x)
  <2> DEFINE h == <<Head(s)>>
             t == Tail(s)
  <2>1. h \in Seq(S) /\ t \in Seq(S) /\ h \o t = s
    BY <1>1, <1>2
  <2> HIDE DEF h, t
  <2>2. Count(h \o t, x) = Count(h, x) + Count(t, x)
    BY <2>1, CountConcat
  <2> QED  BY <2>1, <2>2 DEF h, t
<1>4. Count(Tail(s), x) \in Nat /\ Count(<<Head(s)>>, x) = OneIf(Head(s) = x)
  BY <1>1, CountIsNat, CountOne
<1> QED  BY <1>1, <1>3, <1>4 DEF OneIf

\* and the others and its last.
LEMMA FrontAndLast ==
    ASSUME NEW S, NEW s \in Seq(S), s # <<>>
    PROVE  /\ Front(s) \in Seq(S) /\ Last(s) \in S /\ Last(s) = s[Len(s)]
           /\ s = Append(Front(s), Last(s))
           /\ Len(s) \in Nat \ {0} /\ Len(Front(s)) = Len(s) - 1
           /\ \A i \in 1 .. Len(s) - 1 : Front(s)[i] = s[i]
<1>1. PICK r \in Seq(S), e \in S : s = Append(r, e)
  BY SequenceEmptyOrAppend
<1>2. /\ Len(s) = Len(r) + 1 /\ Len(r) \in Nat /\ s[Len(s)] = e
      /\ \A i \in 1 .. Len(r) : s[i] = r[i]
  BY <1>1, AppendProperties, LenProperties
<1>3. Front(s) = SubSeq(s, 1, Len(r))
  BY <1>2 DEF Front
<1>4. /\ Front(s) \in Seq(S) /\ Len(Front(s)) = Len(r)
      /\ \A i \in 1 .. Len(r) : Front(s)[i] = r[i]
  <2>1. \A i \in 1 .. Len(r) : s[i] \in S
    BY <1>2, ElementOfSeq
  <2>2. /\ SubSeq(s, 1, Len(r)) \in Seq(S)
        /\ Len(SubSeq(s, 1, Len(r))) = IF 1 <= Len(r) THEN Len(r) - 1 + 1 ELSE 0
        /\ \A i \in 1 .. Len(r) - 1 + 1 : SubSeq(s, 1, Len(r))[i] = s[1 + i - 1]
    BY <1>2, <2>1, SubSeqProperties
  <2> QED  BY <1>2, <1>3, <2>2
<1>5. Front(s) = r
  BY <1>4, SeqEqual
<1> QED  BY <1>1, <1>2, <1>5 DEF Last

\* The elements of a queue.
LEMMA RangeAppended ==
    ASSUME NEW S, NEW s \in Seq(S), NEW e \in S
    PROVE  Range(Append(s, e)) = Range(s) \cup {e}
<1>1. Append(s, e) = s \o <<e>> /\ <<e>> \in Seq(S)
  BY AppendIsConcat
<1>2. Range(s \o <<e>>) = Range(s) \cup Range(<<e>>)
  BY <1>1, RangeConcatenation
<1>3. Range(<<e>>) = {e}
  BY DEF Range
<1> QED  BY <1>1, <1>2, <1>3

LEMMA RangeTaken ==
    ASSUME NEW S, NEW s \in Seq(S), s # <<>>
    PROVE  Range(s) = {Head(s)} \cup Range(Tail(s))
<1>1. /\ Tail(s) \in Seq(S) /\ Len(s) \in Nat \ {0} /\ Len(Tail(s)) = Len(s) - 1
      /\ Head(s) = s[1] /\ \A i \in 1 .. Len(Tail(s)) : Tail(s)[i] = s[i + 1]
  BY HeadTailProperties, EmptySeq
<1>2. DOMAIN s = 1 .. Len(s) /\ DOMAIN Tail(s) = 1 .. Len(s) - 1
  BY <1>1, LenProperties
<1>3. ASSUME NEW i \in DOMAIN s, i # 1 PROVE i - 1 \in DOMAIN Tail(s) /\ Tail(s)[i - 1] = s[i]
  BY <1>1, <1>2, <1>3
<1>4. ASSUME NEW i \in DOMAIN Tail(s) PROVE i + 1 \in DOMAIN s /\ s[i + 1] = Tail(s)[i]
  BY <1>1, <1>2
<1>5. 1 \in DOMAIN s
  BY <1>1, <1>2
<1> QED  BY <1>1, <1>3, <1>4, <1>5 DEF Range

LEMMA CountFront ==
    ASSUME NEW S, NEW s \in Seq(S), s # <<>>, NEW x
    PROVE  Count(s, x) = Count(Front(s), x) + OneIf(Last(s) = x)
<1> DEFINE r == Front(s)
           e == Last(s)
<1>1. r \in Seq(S) /\ e \in S /\ s = Append(r, e)
  BY FrontAndLast
<1> HIDE DEF r, e
<1>2. Count(Append(r, e), x) = Count(r, x) + OneIf(e = x)
  BY <1>1, CountAppended
<1> QED  BY <1>1, <1>2 DEF r, e

-----------------------------------------------------------------------------
(* The frames of a sequence of jobs                                        *)

LEMMA SourcesType ==
    ASSUME NEW jobs \in Seq(Jobs)
    PROVE  /\ Sources(jobs) \in Seq(Frames) /\ Len(Sources(jobs)) = Len(jobs)
           /\ \A i \in 1 .. Len(jobs) : Sources(jobs)[i] = jobs[i].src
<1> DEFINE n == Len(jobs)
<1>1. n \in Nat /\ DOMAIN jobs = 1 .. n
  BY LenProperties
<1>a. \A i \in 1 .. n : jobs[i].src \in Frames
  <2>1. \A i \in 1 .. n : jobs[i] \in Jobs
    BY ElementOfSeq
  <2> HIDE DEF n
  <2> QED  BY <2>1 DEF Jobs
<1>2. Sources(jobs) = [i \in 1 .. n |-> jobs[i].src]
  BY <1>1 DEF Sources
<1> HIDE DEF n
<1>3. [i \in 1 .. n |-> jobs[i].src] \in Seq(Frames)
  BY <1>1, <1>a
<1>4. Len([i \in 1 .. n |-> jobs[i].src]) = n
  BY <1>1, <1>3
<1> QED  BY <1>1, <1>2, <1>3, <1>4 DEF n

LEMMA SourcesNone == Sources(<<>>) = <<>>
BY DEF Sources

LEMMA SourcesOne ==
    ASSUME NEW job
    PROVE  Sources(<<job>>) = <<job.src>>
BY DEF Sources

LEMMA SourcesAppended ==
    ASSUME NEW jobs \in Seq(Jobs), NEW job \in Jobs
    PROVE  Sources(Append(jobs, job)) = Append(Sources(jobs), job.src)
<1> DEFINE a == Sources(Append(jobs, job))
           b == Append(Sources(jobs), job.src)
<1>1. job.src \in Frames
  BY DEF Jobs
<1>2. /\ a \in Seq(Frames) /\ Len(a) = Len(jobs) + 1 /\ Len(jobs) \in Nat
      /\ \A i \in 1 .. Len(jobs) + 1 : a[i] = Append(jobs, job)[i].src
  <2>1. Append(jobs, job) \in Seq(Jobs) /\ Len(Append(jobs, job)) = Len(jobs) + 1 /\ Len(jobs) \in Nat
    BY AppendProperties, LenProperties
  <2> QED  BY <2>1, SourcesType
<1>3. /\ b \in Seq(Frames) /\ Len(b) = Len(jobs) + 1
      /\ \A i \in 1 .. Len(jobs) : b[i] = jobs[i].src
      /\ b[Len(jobs) + 1] = job.src
  BY <1>1, SourcesType, AppendProperties
<1>4. \A i \in 1 .. Len(jobs) + 1 : a[i] = b[i]
  <2> HIDE DEF b
  <2> SUFFICES ASSUME NEW i \in 1 .. Len(jobs) + 1 PROVE a[i] = b[i]
    OBVIOUS
  <2>1. CASE i = Len(jobs) + 1
    BY <1>2, <1>3, <2>1, AppendProperties
  <2>2. CASE i # Len(jobs) + 1
    BY <1>2, <1>3, <2>2, AppendProperties
  <2> QED  BY <2>1, <2>2
<1> HIDE DEF a, b
<1>5. a = b
  BY <1>2, <1>3, <1>4, SeqEqual
<1> QED  BY <1>5 DEF a, b

LEMMA SourcesTaken ==
    ASSUME NEW jobs \in Seq(Jobs), jobs # <<>>
    PROVE  /\ Sources(jobs) # <<>> /\ Head(Sources(jobs)) = Head(jobs).src
           /\ Tail(Sources(jobs)) = Sources(Tail(jobs))
<1> DEFINE a == Tail(Sources(jobs))
           b == Sources(Tail(jobs))
           n == Len(jobs) - 1
<1>1. n \in Nat /\ Len(jobs) = n + 1 /\ Tail(jobs) \in Seq(Jobs)
  BY EmptySeq, HeadTailProperties
<1>2. Sources(jobs) # <<>> /\ Head(Sources(jobs)) = Head(jobs).src
  BY <1>1, SourcesType, EmptySeq
<1>3. a \in Seq(Frames) /\ Len(a) = n /\ \A i \in 1 .. n : a[i] = jobs[i + 1].src
  BY <1>1, <1>2, SourcesType, HeadTailProperties
<1>4. b \in Seq(Frames) /\ Len(b) = n /\ \A i \in 1 .. n : b[i] = jobs[i + 1].src
  <2>1. Len(Tail(jobs)) = n /\ \A i \in 1 .. n : Tail(jobs)[i] = jobs[i + 1]
    BY <1>1, HeadTailProperties
  <2>2. /\ b \in Seq(Frames) /\ Len(b) = Len(Tail(jobs))
        /\ \A i \in 1 .. Len(Tail(jobs)) : b[i] = Tail(jobs)[i].src
    BY <1>1, SourcesType
  <2> HIDE DEF b, n
  <2> QED  BY <2>1, <2>2
<1> HIDE DEF a, b, n
<1>5. a = b
  BY <1>3, <1>4, SeqEqual
<1> QED  BY <1>2, <1>5 DEF a, b

LEMMA JobsAppended ==
    ASSUME NEW jobs \in Seq(Jobs), NEW job \in Jobs, NEW f
    PROVE  Count(Sources(Append(jobs, job)), f) = Count(Sources(jobs), f) + OneIf(job.src = f)
<1> DEFINE s == Sources(jobs)
           e == job.src
<1>1. s \in Seq(Frames) /\ e \in Frames /\ Sources(Append(jobs, job)) = Append(s, e)
  BY SourcesType, SourcesAppended DEF Jobs
<1> HIDE DEF s, e
<1>2. Count(Append(s, e), f) = Count(s, f) + OneIf(e = f)
  BY <1>1, CountAppended
<1> QED  BY <1>1, <1>2 DEF s, e

LEMMA JobsTaken ==
    ASSUME NEW jobs \in Seq(Jobs), jobs # <<>>, NEW f
    PROVE  Count(Sources(jobs), f) = Count(Sources(Tail(jobs)), f) + OneIf(Head(jobs).src = f)
<1> DEFINE s == Sources(jobs)
<1>1. s \in Seq(Frames) /\ s # <<>> /\ Head(s) = Head(jobs).src /\ Tail(s) = Sources(Tail(jobs))
  BY SourcesType, SourcesTaken
<1> HIDE DEF s
<1>2. Count(s, f) = Count(Tail(s), f) + OneIf(Head(s) = f)
  BY <1>1, CountTaken
<1> QED  BY <1>1, <1>2 DEF s

LEMMA JobsFront ==
    ASSUME NEW jobs \in Seq(Jobs), jobs # <<>>, NEW f
    PROVE  Count(Sources(jobs), f) = Count(Sources(Front(jobs)), f) + OneIf(Last(jobs).src = f)
<1> DEFINE r == Front(jobs)
           e == Last(jobs)
<1>1. r \in Seq(Jobs) /\ e \in Jobs /\ jobs = Append(r, e)
  BY FrontAndLast
<1> HIDE DEF r, e
<1>2. Count(Sources(Append(r, e)), f) = Count(Sources(r), f) + OneIf(e.src = f)
  BY <1>1, JobsAppended
<1> QED  BY <1>1, <1>2 DEF r, e

-----------------------------------------------------------------------------
(* Removing from the middle of a queue                                     *)

WithId(jobs, id) == {i \in DOMAIN jobs : jobs[i].id = id}

\* What flushNodes leaves: the jobs with another number, the last of all
\* still the last when it is one of them.
Left(jobs, id, kept) ==
    /\ kept \in Seq(Jobs)
    /\ \A k \in DOMAIN kept : kept[k].id # id /\ kept[k] \in Range(jobs)
    /\ \A i \in DOMAIN jobs : jobs[i].id # id => jobs[i] \in Range(kept)
    /\ jobs # <<>> /\ jobs[Len(jobs)].id # id =>
         kept # <<>> /\ kept[Len(kept)] = jobs[Len(jobs)]

LEMMA FlushLeaves ==
    ASSUME NEW jobs \in Seq(Jobs), NEW id, NEW e \in Order(DOMAIN jobs \ WithId(jobs, id))
    PROVE  Left(jobs, id, Picked(jobs, e))
<1> DEFINE I == DOMAIN jobs \ WithId(jobs, id)
           kept == Picked(jobs, e)
           n == Cardinality(I)
<1>1. /\ DOMAIN jobs = 1 .. Len(jobs) /\ Len(jobs) \in Nat
      /\ \A i \in 1 .. Len(jobs) : jobs[i] \in Jobs
  BY LenProperties, ElementOfSeq
<1>2. I \in SUBSET (1 .. Len(jobs)) /\ \A i \in DOMAIN jobs : i \in I <=> jobs[i].id # id
  BY <1>1 DEF WithId
<1>3. n \in Nat
  <2> HIDE DEF I
  <2>1. IsFiniteSet(1 .. Len(jobs))
    BY <1>1, FS_Interval
  <2>2. IsFiniteSet(I)
    BY <1>2, <2>1, FS_Subset
  <2> QED  BY <2>2, FS_CardinalityType
<1>4. /\ e \in [1 .. n -> I]
      /\ \A j, k \in 1 .. n : j < k => e[j] < e[k]
      /\ \A i \in I : \E k \in 1 .. n : e[k] = i
  <2> HIDE DEF I
  <2>1. e \in Order(I)
    BY DEF I
  <2> QED  BY <2>1 DEF Order
<1> HIDE DEF I, n
<1>5. kept = [k \in 1 .. n |-> jobs[e[k]]]
  BY <1>4 DEF Picked
<1>6. \A k \in 1 .. n : jobs[e[k]] \in Jobs /\ e[k] \in 1 .. Len(jobs) /\ e[k] \in I
  BY <1>1, <1>2, <1>4
<1>7. kept \in Seq(Jobs)
  BY <1>3, <1>5, <1>6
<1>8. Len(kept) = n /\ DOMAIN kept = 1 .. n /\ \A k \in 1 .. n : kept[k] = jobs[e[k]]
  BY <1>3, <1>5, <1>7
<1> HIDE DEF kept
<1>9. \A k \in DOMAIN kept : kept[k].id # id /\ kept[k] \in Range(jobs)
  BY <1>1, <1>2, <1>6, <1>8 DEF Range
<1>10. \A i \in DOMAIN jobs : jobs[i].id # id => jobs[i] \in Range(kept)
  BY <1>2, <1>4, <1>8 DEF Range
<1>11. ASSUME jobs # <<>>, jobs[Len(jobs)].id # id
       PROVE  kept # <<>> /\ kept[Len(kept)] = jobs[Len(jobs)]
  <2>1. Len(jobs) \in I /\ Len(jobs) \in Nat \ {0}
    BY <1>1, <1>2, <1>11, EmptySeq
  <2>2. PICK k \in 1 .. n : e[k] = Len(jobs)
    BY <1>4, <2>1
  <2>3. ~ (k < n)
    <3>1. ASSUME k < n PROVE FALSE
      <4>1. e[k] < e[n] /\ e[n] \in 1 .. Len(jobs)
        BY <1>3, <1>4, <1>6, <2>2, <3>1
      <4> QED  BY <2>1, <2>2, <4>1
    <3> QED  BY <3>1
  <2>4. k = n
    BY <1>3, <2>2, <2>3
  <2> QED  BY <1>7, <1>8, <2>2, <2>4, EmptySeq
<1> QED  BY <1>7, <1>9, <1>10, <1>11 DEF Left, kept

\* The number of jobs with an id and a source
Flushed(jobs, id, f) == Cardinality({i \in WithId(jobs, id) : jobs[i].src = f})

\* Every job is left or was flushed.
LEMMA FlushCounts ==
    ASSUME NEW jobs \in Seq(Jobs), NEW id, NEW e \in Order(DOMAIN jobs \ WithId(jobs, id)), NEW f
    PROVE  /\ Flushed(jobs, id, f) \in Nat
           /\ Count(Sources(jobs), f) = Count(Sources(Picked(jobs, e)), f) + Flushed(jobs, id, f)
<1> DEFINE I == DOMAIN jobs \ WithId(jobs, id)
           kept == Picked(jobs, e)
           s == Sources(jobs)
           r == Sources(kept)
           all == {i \in DOMAIN s : s[i] = f}
           some == {k \in DOMAIN r : r[k] = f}
           stay == {i \in I : jobs[i].src = f}
           gone == {i \in WithId(jobs, id) : jobs[i].src = f}
           pick == [k \in some |-> e[k]]
<1>2. I \subseteq DOMAIN jobs /\ DOMAIN jobs = 1 .. Len(jobs) /\ Len(jobs) \in Nat
  BY LenProperties
<1>1. /\ e \in [DOMAIN e -> I] /\ DOMAIN e \subseteq Nat
      /\ \A j, k \in DOMAIN e : j < k => e[j] < e[k]
      /\ \A i \in I : \E k \in DOMAIN e : e[k] = i
  <2>1. I \in SUBSET (1 .. Len(jobs))
    BY <1>2
  <2> HIDE DEF I
  <2>2. e \in Order(I)
    BY DEF I
  <2>3. IsFiniteSet(1 .. Len(jobs))
    BY <1>2, FS_Interval
  <2>4. IsFiniteSet(I)
    BY <2>1, <2>3, FS_Subset
  <2>5. Cardinality(I) \in Nat
    BY <2>4, FS_CardinalityType
  <2>6. /\ e \in [1 .. Cardinality(I) -> I]
        /\ \A j, k \in DOMAIN e : j < k => e[j] < e[k]
        /\ \A i \in I : \E k \in DOMAIN e : e[k] = i
    BY <2>2 DEF Order
  <2> QED  BY <2>5, <2>6
<1>3. DOMAIN s = DOMAIN jobs /\ \A i \in DOMAIN s : s[i] = jobs[i].src
  BY DEF Sources
<1>4. DOMAIN r = DOMAIN e /\ \A k \in DOMAIN r : r[k] = jobs[e[k]].src
  BY DEF Sources, Picked
<1>5. all = stay \cup gone /\ stay \cap gone = {}
  BY <1>3 DEF WithId
<1>6. all \in SUBSET (1 .. Len(jobs))
  BY <1>2, <1>3
<1>7. IsFiniteSet(all) /\ Cardinality(all) = Count(s, f)
  <2> HIDE DEF all
  <2>1. IsFiniteSet(1 .. Len(jobs))
    BY <1>2, FS_Interval
  <2>2. IsFiniteSet(all)
    BY <1>6, <2>1, FS_Subset
  <2> QED  BY <2>2 DEF all, Count
<1>8. Cardinality(some) = Count(r, f)
  BY DEF Count
<1>a. \A k \in some : e[k] \in stay /\ k \in Nat /\ k \in DOMAIN e /\ e[k] \in Nat
  BY <1>1, <1>2, <1>4
<1>b. \A i \in stay : \E k \in some : e[k] = i
  BY <1>1, <1>4
<1> HIDE DEF I, s, r, kept, all, some, stay, gone
<1>9. pick \in Bijection(some, stay)
  <2>1. pick \in [some -> stay]
    BY <1>a
  <2>2. ASSUME NEW j \in some, NEW k \in some, pick[j] = pick[k] PROVE j = k
    <3>1. e[j] = e[k] /\ e[j] \in Nat /\ j \in Nat /\ k \in Nat
      BY <1>a, <2>2
    <3>2. ~ (j < k) /\ ~ (k < j)
      BY <1>1, <1>a, <3>1
    <3> QED  BY <3>1, <3>2
  <2>3. \A i \in stay : \E k \in some : pick[k] = i
    BY <1>b
  <2> QED  BY <2>1, <2>2, <2>3 DEF Bijection, Injection, Surjection, IsInjective
<1>10. IsFiniteSet(stay) /\ IsFiniteSet(gone)
  <2>1. stay \in SUBSET all /\ gone \in SUBSET all
    BY <1>5
  <2> QED  BY <1>7, <2>1, FS_Subset
<1>11. Cardinality(stay) = Cardinality(some) /\ Cardinality(stay) \in Nat /\ Cardinality(gone) \in Nat
  <2>1. pick \in Injection(some, stay) /\ pick \in Surjection(some, stay)
    BY <1>9 DEF Bijection
  <2>2. IsFiniteSet(some)
    BY <1>10, <2>1, FS_Injection
  <2>3. Cardinality(stay) = Cardinality(some)
    BY <1>9, <2>2, FS_Bijection DEF ExistsBijection
  <2> QED  BY <1>10, <2>3, FS_CardinalityType
<1>12. Cardinality(all) = Cardinality(stay) + Cardinality(gone)
  <2>1. Cardinality(stay \cap gone) = 0
    BY <1>5, FS_EmptySet
  <2>2. Cardinality(all) = Cardinality(stay) + Cardinality(gone) - Cardinality(stay \cap gone)
    BY <1>5, <1>10, FS_Union
  <2> QED  BY <1>11, <2>1, <2>2
<1> QED  BY <1>7, <1>8, <1>11, <1>12 DEF s, r, kept, gone, Flushed

-----------------------------------------------------------------------------
(* The threads' queues                                                     *)

\* A command more; one with priority; one less.
LEMMA ProcSent ==
    ASSUME NEW p \in Procs, NEW c \in Commands
    PROVE  /\ Sent(p, c) \in Procs
           /\ Sent(p, c).pc = p.pc /\ Sent(p, c).job = p.job
           /\ Count(Sent(p, c).cmds, "stop") = Count(p.cmds, "stop") + OneIf(c = "stop")
<1>1. p.cmds \in Seq(Commands) /\ Append(p.cmds, c) \in Seq(Commands)
  BY AppendProperties DEF Procs
<1>2. Count(Append(p.cmds, c), "stop") = Count(p.cmds, "stop") + OneIf(c = "stop")
  BY <1>1, CountAppended
<1>3. Sent(p, c) = [p EXCEPT !.cmds = Append(p.cmds, c)]
  BY DEF Sent
<1> QED  BY <1>1, <1>2, <1>3 DEF Procs

LEMMA ProcSentFirst ==
    ASSUME NEW p \in Procs
    PROVE  /\ SentFirst(p, "stop") \in Procs
           /\ SentFirst(p, "stop").pc = p.pc /\ SentFirst(p, "stop").job = p.job
           /\ Count(SentFirst(p, "stop").cmds, "stop") = Count(p.cmds, "stop") + 1
<1> DEFINE s == <<"stop">>
<1>1. p.cmds \in Seq(Commands) /\ s \in Seq(Commands)
  BY DEF Procs, Commands
<1>2. Count(s, "stop") = 1
  BY CountOne DEF OneIf
<1> HIDE DEF s
<1> DEFINE r == s \o p.cmds
<1>3. r \in Seq(Commands)
  BY <1>1, ConcatProperties
<1>4. Count(r, "stop") = Count(p.cmds, "stop") + 1
  <2>1. Count(r, "stop") = Count(s, "stop") + Count(p.cmds, "stop")
    BY <1>1, CountConcat
  <2>2. Count(p.cmds, "stop") \in Nat
    BY <1>1, CountIsNat
  <2> HIDE DEF r
  <2> QED  BY <1>2, <2>1, <2>2
<1>5. SentFirst(p, "stop") = [p EXCEPT !.cmds = r]
  BY DEF SentFirst, s
<1> HIDE DEF r
<1> QED  BY <1>3, <1>4, <1>5 DEF Procs

LEMMA ProcReceived ==
    ASSUME NEW p \in Procs, p.cmds # <<>>
    PROVE  /\ Received(p) \in Procs
           /\ Received(p).pc = p.pc /\ Received(p).job = p.job
           /\ Count(p.cmds, "stop") = Count(Received(p).cmds, "stop") + OneIf(Head(p.cmds) = "stop")
<1>1. p.cmds \in Seq(Commands)
  BY DEF Procs
<1>2. /\ Tail(p.cmds) \in Seq(Commands)
      /\ Count(p.cmds, "stop") = Count(Tail(p.cmds), "stop") + OneIf(Head(p.cmds) = "stop")
  BY <1>1, CountTaken
<1>3. Received(p) = [p EXCEPT !.cmds = Tail(p.cmds)]
  BY DEF Received
<1> QED  BY <1>2, <1>3 DEF Procs

LEMMA NotifierSent ==
    ASSUME NEW n \in Notifiers, NEW c \in Commands
    PROVE  /\ Sent(n, c) \in Notifiers
           /\ Sent(n, c).pc = n.pc /\ Sent(n, c).cb = n.cb /\ Sent(n, c).dataQ = n.dataQ
<1>1. Append(n.cmds, c) \in Seq(Commands)
  BY AppendProperties DEF Notifiers
<1> QED  BY <1>1 DEF Notifiers, Sent

LEMMA NotifierSentFirst ==
    ASSUME NEW n \in Notifiers, NEW c \in Commands
    PROVE  /\ SentFirst(n, c) \in Notifiers
           /\ SentFirst(n, c).pc = n.pc /\ SentFirst(n, c).cb = n.cb
           /\ SentFirst(n, c).dataQ = n.dataQ
<1>1. <<c>> \in Seq(Commands) /\ n.cmds \in Seq(Commands)
  BY DEF Notifiers
<1>2. <<c>> \o n.cmds \in Seq(Commands)
  BY <1>1, ConcatProperties
<1> QED  BY <1>2 DEF Notifiers, SentFirst

LEMMA NotifierReceived ==
    ASSUME NEW n \in Notifiers, n.cmds # <<>>
    PROVE  /\ Received(n) \in Notifiers
           /\ Received(n).pc = n.pc /\ Received(n).cb = n.cb /\ Received(n).dataQ = n.dataQ
<1>1. Tail(n.cmds) \in Seq(Commands)
  BY HeadTailProperties DEF Notifiers
<1> QED  BY <1>1 DEF Notifiers, Received

LEMMA NotifiedOf ==
    ASSUME notifier \in Notifiers, NEW cb \in Callbacks
    PROVE  /\ Notified(cb) \in Notifiers
           /\ Notified(cb).pc = notifier.pc /\ Notified(cb).cb = notifier.cb
           /\ \A f : Count(Notified(cb).dataQ, <<f>>)
                      = Count(notifier.dataQ, <<f>>) + OneIf(cb = <<f>>)
<1> DEFINE n == Sent(notifier, "do")
           d == Append(n.dataQ, cb)
<1>1. n \in Notifiers /\ n.pc = notifier.pc /\ n.cb = notifier.cb /\ n.dataQ = notifier.dataQ
  BY NotifierSent DEF Commands
<1>2. n.dataQ \in Seq(Callbacks)
  BY <1>1 DEF Notifiers
<1>3. d \in Seq(Callbacks)
  BY <1>2, AppendProperties
<1>4. \A f : Count(d, <<f>>) = Count(n.dataQ, <<f>>) + OneIf(cb = <<f>>)
  BY <1>2, CountAppended
<1>5. Notified(cb) = [n EXCEPT !.dataQ = d]
  BY DEF Notified
<1> HIDE DEF n, d
<1>6. /\ Notified(cb) \in Notifiers /\ Notified(cb).dataQ = d
      /\ Notified(cb).pc = n.pc /\ Notified(cb).cb = n.cb
  BY <1>1, <1>3, <1>5 DEF Notifiers
<1> QED  BY <1>1, <1>4, <1>6

LEMMA NotifiedWithout ==
    ASSUME notifier \in Notifiers
    PROVE  /\ Notified(<<>>) \in Notifiers
           /\ Notified(<<>>).pc = notifier.pc /\ Notified(<<>>).cb = notifier.cb
           /\ \A f : Count(Notified(<<>>).dataQ, <<f>>) = Count(notifier.dataQ, <<f>>)
<1>1. <<>> \in Callbacks
  BY DEF Callbacks
<1>2. \A f : Count(Notified(<<>>).dataQ, <<f>>) = Count(notifier.dataQ, <<f>>) + OneIf(<<>> = <<f>>)
  BY <1>1, NotifiedOf
<1>3. \A f : OneIf(<<>> = <<f>>) = 0 /\ Count(notifier.dataQ, <<f>>) \in Nat
  <2>1. notifier.dataQ \in Seq(Callbacks)
    BY DEF Notifiers
  <2>2. \A f : Count(notifier.dataQ, <<f>>) \in Nat
    BY <2>1, CountIsNat
  <2>3. \A f : OneIf(<<>> = <<f>>) = 0
    BY DEF OneIf
  <2> QED  BY <2>2, <2>3
<1>4. ASSUME NEW f PROVE Count(Notified(<<>>).dataQ, <<f>>) = Count(notifier.dataQ, <<f>>)
  <2> DEFINE a == Count(Notified(<<>>).dataQ, <<f>>)
             b == Count(notifier.dataQ, <<f>>)
             c == OneIf(<<>> = <<f>>)
  <2>1. a = b + c /\ b \in Nat /\ c = 0
    BY <1>2, <1>3
  <2> HIDE DEF a, b, c
  <2>2. a = b
    BY <2>1
  <2> QED  BY <2>2 DEF a, b
<1> QED  BY <1>1, <1>4, NotifiedOf

-----------------------------------------------------------------------------
(* The places of a frame                                                   *)

InQs(q, f) ==
    Count(q.inputPPQ, f) + Count(q.ongoingPPQ, f) + Count(q.inputRawQ, <<f>>)
      + Count(Sources(q.inputJpegQ), f) + Count(Sources(q.ongoingJpegQ), f)
HandOf(p) == IF p.pc = "release" THEN Sources(p.job) ELSE <<>>
NotifierHas(n, f) == Count(n.dataQ, <<f>>) + Count(n.cb, f)

LEMMA QueueCounts ==
    ASSUME NEW q \in Queues, NEW f
    PROVE  /\ Count(q.inputPPQ, f) \in Nat /\ Count(q.ongoingPPQ, f) \in Nat
           /\ Count(q.inputRawQ, <<f>>) \in Nat /\ Count(Sources(q.inputJpegQ), f) \in Nat
           /\ Count(Sources(q.ongoingJpegQ), f) \in Nat /\ InQs(q, f) \in Nat
<1>1. /\ q.inputPPQ \in Seq(Frames) /\ q.ongoingPPQ \in Seq(Frames) /\ q.inputRawQ \in Seq(Callbacks)
      /\ q.inputJpegQ \in Seq(Jobs) /\ q.ongoingJpegQ \in Seq(Jobs)
  BY DEF Queues
<1>2. Sources(q.inputJpegQ) \in Seq(Frames) /\ Sources(q.ongoingJpegQ) \in Seq(Frames)
  BY <1>1, SourcesType
<1>3. /\ Count(q.inputPPQ, f) \in Nat /\ Count(q.ongoingPPQ, f) \in Nat
      /\ Count(q.inputRawQ, <<f>>) \in Nat /\ Count(Sources(q.inputJpegQ), f) \in Nat
      /\ Count(Sources(q.ongoingJpegQ), f) \in Nat
  BY <1>1, <1>2, CountIsNat
<1> QED  BY <1>3 DEF InQs

SameBut(q, r, changed) ==
    /\ "inputPPQ" \notin changed => r.inputPPQ = q.inputPPQ
    /\ "ongoingPPQ" \notin changed => r.ongoingPPQ = q.ongoingPPQ
    /\ "inputRawQ" \notin changed => r.inputRawQ = q.inputRawQ
    /\ "inputJpegQ" \notin changed => r.inputJpegQ = q.inputJpegQ
    /\ "ongoingJpegQ" \notin changed => r.ongoingJpegQ = q.ongoingJpegQ

HasMore(q, r, f, o) ==
    \/ /\ SameBut(q, r, {"inputPPQ"})
       /\ Count(r.inputPPQ, f) = Count(q.inputPPQ, f) + o
    \/ /\ SameBut(q, r, {"ongoingPPQ"})
       /\ Count(r.ongoingPPQ, f) = Count(q.ongoingPPQ, f) + o
    \/ /\ SameBut(q, r, {"inputRawQ"})
       /\ Count(r.inputRawQ, <<f>>) = Count(q.inputRawQ, <<f>>) + o
    \/ /\ SameBut(q, r, {"inputJpegQ"})
       /\ Count(Sources(r.inputJpegQ), f) = Count(Sources(q.inputJpegQ), f) + o
    \/ /\ SameBut(q, r, {"ongoingJpegQ"})
       /\ Count(Sources(r.ongoingJpegQ), f) = Count(Sources(q.ongoingJpegQ), f) + o

\* What one queue has more, all have more.
LEMMA OneHasMore ==
    ASSUME NEW q \in Queues, NEW r \in Queues, NEW f, NEW o \in Nat, HasMore(q, r, f, o)
    PROVE  InQs(r, f) = InQs(q, f) + o
<1> DEFINE a == Count(q.inputPPQ, f)
           b == Count(q.ongoingPPQ, f)
           c == Count(q.inputRawQ, <<f>>)
           d == Count(Sources(q.inputJpegQ), f)
           e == Count(Sources(q.ongoingJpegQ), f)
           a2 == Count(r.inputPPQ, f)
           b2 == Count(r.ongoingPPQ, f)
           c2 == Count(r.inputRawQ, <<f>>)
           d2 == Count(Sources(r.inputJpegQ), f)
           e2 == Count(Sources(r.ongoingJpegQ), f)
<1>1. a \in Nat /\ b \in Nat /\ c \in Nat /\ d \in Nat /\ e \in Nat
  BY QueueCounts
<1>2. \/ a2 = a + o /\ b2 = b /\ c2 = c /\ d2 = d /\ e2 = e
      \/ a2 = a /\ b2 = b + o /\ c2 = c /\ d2 = d /\ e2 = e
      \/ a2 = a /\ b2 = b /\ c2 = c + o /\ d2 = d /\ e2 = e
      \/ a2 = a /\ b2 = b /\ c2 = c /\ d2 = d + o /\ e2 = e
      \/ a2 = a /\ b2 = b /\ c2 = c /\ d2 = d /\ e2 = e + o
  BY DEF HasMore, SameBut
<1>3. InQs(q, f) = a + b + c + d + e /\ InQs(r, f) = a2 + b2 + c2 + d2 + e2
  BY DEF InQs
<1> HIDE DEF a, b, c, d, e, a2, b2, c2, d2, e2
<1> QED  BY <1>1, <1>2, <1>3

\* A frame or a job more, at the end of a queue; one less, at its head; one
\* less, at its end.
LEMMA AddedToInputPPQ ==
    ASSUME NEW q \in Queues, NEW e \in Frames, NEW r, r = [q EXCEPT !.inputPPQ = Append(q.inputPPQ, e)]
    PROVE  r \in Queues /\ \A f : InQs(r, f) = InQs(q, f) + OneIf(e = f)
<1>1. q.inputPPQ \in Seq(Frames) /\ Append(q.inputPPQ, e) \in Seq(Frames)
  BY AppendProperties DEF Queues
<1>2. r \in Queues /\ SameBut(q, r, {"inputPPQ"}) /\ r.inputPPQ = Append(q.inputPPQ, e)
  BY <1>1 DEF Queues, SameBut
<1>3. ASSUME NEW f PROVE InQs(r, f) = InQs(q, f) + OneIf(e = f)
  <2>1. Count(r.inputPPQ, f) = Count(q.inputPPQ, f) + OneIf(e = f)
    BY <1>1, <1>2, CountAppended
  <2>2. OneIf(e = f) \in Nat
    BY DEF OneIf
  <2>3. q \in Queues /\ r \in Queues
    BY <1>2
  <2>4. HasMore(q, r, f, OneIf(e = f))
    BY <1>2, <2>1 DEF HasMore
  <2> QED  BY <2>2, <2>3, <2>4, OneHasMore
<1> QED  BY <1>2, <1>3

LEMMA AddedToOngoingPPQ ==
    ASSUME NEW q \in Queues, NEW e \in Frames, NEW r, r = [q EXCEPT !.ongoingPPQ = Append(q.ongoingPPQ, e)]
    PROVE  r \in Queues /\ \A f : InQs(r, f) = InQs(q, f) + OneIf(e = f)
<1>1. q.ongoingPPQ \in Seq(Frames) /\ Append(q.ongoingPPQ, e) \in Seq(Frames)
  BY AppendProperties DEF Queues
<1>2. r \in Queues /\ SameBut(q, r, {"ongoingPPQ"}) /\ r.ongoingPPQ = Append(q.ongoingPPQ, e)
  BY <1>1 DEF Queues, SameBut
<1>3. ASSUME NEW f PROVE InQs(r, f) = InQs(q, f) + OneIf(e = f)
  <2>1. Count(r.ongoingPPQ, f) = Count(q.ongoingPPQ, f) + OneIf(e = f)
    BY <1>1, <1>2, CountAppended
  <2>2. OneIf(e = f) \in Nat
    BY DEF OneIf
  <2>3. q \in Queues /\ r \in Queues
    BY <1>2
  <2>4. HasMore(q, r, f, OneIf(e = f))
    BY <1>2, <2>1 DEF HasMore
  <2> QED  BY <2>2, <2>3, <2>4, OneHasMore
<1> QED  BY <1>2, <1>3

LEMMA AddedToInputRawQ ==
    ASSUME NEW q \in Queues, NEW e \in Callbacks, NEW r, r = [q EXCEPT !.inputRawQ = Append(q.inputRawQ, e)]
    PROVE  r \in Queues /\ \A f : InQs(r, f) = InQs(q, f) + OneIf(e = <<f>>)
<1>1. q.inputRawQ \in Seq(Callbacks) /\ Append(q.inputRawQ, e) \in Seq(Callbacks)
  BY AppendProperties DEF Queues
<1>2. r \in Queues /\ SameBut(q, r, {"inputRawQ"}) /\ r.inputRawQ = Append(q.inputRawQ, e)
  BY <1>1 DEF Queues, SameBut
<1>3. ASSUME NEW f PROVE InQs(r, f) = InQs(q, f) + OneIf(e = <<f>>)
  <2>1. Count(r.inputRawQ, <<f>>) = Count(q.inputRawQ, <<f>>) + OneIf(e = <<f>>)
    BY <1>1, <1>2, CountAppended
  <2>2. OneIf(e = <<f>>) \in Nat
    BY DEF OneIf
  <2>3. q \in Queues /\ r \in Queues
    BY <1>2
  <2>4. HasMore(q, r, f, OneIf(e = <<f>>))
    BY <1>2, <2>1 DEF HasMore
  <2> QED  BY <2>2, <2>3, <2>4, OneHasMore
<1> QED  BY <1>2, <1>3

LEMMA AddedToInputJpegQ ==
    ASSUME NEW q \in Queues, NEW e \in Jobs, NEW r, r = [q EXCEPT !.inputJpegQ = Append(q.inputJpegQ, e)]
    PROVE  r \in Queues /\ \A f : InQs(r, f) = InQs(q, f) + OneIf(e.src = f)
<1>1. q.inputJpegQ \in Seq(Jobs) /\ Append(q.inputJpegQ, e) \in Seq(Jobs)
  BY AppendProperties DEF Queues
<1>2. r \in Queues /\ SameBut(q, r, {"inputJpegQ"}) /\ r.inputJpegQ = Append(q.inputJpegQ, e)
  BY <1>1 DEF Queues, SameBut
<1>3. ASSUME NEW f PROVE InQs(r, f) = InQs(q, f) + OneIf(e.src = f)
  <2>1. Count(Sources(r.inputJpegQ), f) = Count(Sources(q.inputJpegQ), f) + OneIf(e.src = f)
    BY <1>1, <1>2, JobsAppended
  <2>2. OneIf(e.src = f) \in Nat
    BY DEF OneIf
  <2>3. q \in Queues /\ r \in Queues
    BY <1>2
  <2>4. HasMore(q, r, f, OneIf(e.src = f))
    BY <1>2, <2>1 DEF HasMore
  <2> QED  BY <2>2, <2>3, <2>4, OneHasMore
<1> QED  BY <1>2, <1>3

LEMMA AddedToOngoingJpegQ ==
    ASSUME NEW q \in Queues, NEW e \in Jobs, NEW r, r = [q EXCEPT !.ongoingJpegQ = Append(q.ongoingJpegQ, e)]
    PROVE  r \in Queues /\ \A f : InQs(r, f) = InQs(q, f) + OneIf(e.src = f)
<1>1. q.ongoingJpegQ \in Seq(Jobs) /\ Append(q.ongoingJpegQ, e) \in Seq(Jobs)
  BY AppendProperties DEF Queues
<1>2. r \in Queues /\ SameBut(q, r, {"ongoingJpegQ"}) /\ r.ongoingJpegQ = Append(q.ongoingJpegQ, e)
  BY <1>1 DEF Queues, SameBut
<1>3. ASSUME NEW f PROVE InQs(r, f) = InQs(q, f) + OneIf(e.src = f)
  <2>1. Count(Sources(r.ongoingJpegQ), f) = Count(Sources(q.ongoingJpegQ), f) + OneIf(e.src = f)
    BY <1>1, <1>2, JobsAppended
  <2>2. OneIf(e.src = f) \in Nat
    BY DEF OneIf
  <2>3. q \in Queues /\ r \in Queues
    BY <1>2
  <2>4. HasMore(q, r, f, OneIf(e.src = f))
    BY <1>2, <2>1 DEF HasMore
  <2> QED  BY <2>2, <2>3, <2>4, OneHasMore
<1> QED  BY <1>2, <1>3

LEMMA TakenFromInputPPQ ==
    ASSUME NEW q \in Queues, q.inputPPQ # <<>>, NEW r, r = [q EXCEPT !.inputPPQ = Tail(q.inputPPQ)]
    PROVE  /\ r \in Queues /\ Head(q.inputPPQ) \in Frames
           /\ \A f : InQs(q, f) = InQs(r, f) + OneIf(Head(q.inputPPQ) = f)
<1>1. q.inputPPQ \in Seq(Frames) /\ Tail(q.inputPPQ) \in Seq(Frames) /\ Head(q.inputPPQ) \in Frames
  BY HeadTailProperties DEF Queues
<1>2. r \in Queues /\ SameBut(r, q, {"inputPPQ"}) /\ r.inputPPQ = Tail(q.inputPPQ)
  BY <1>1 DEF Queues, SameBut
<1>3. ASSUME NEW f PROVE InQs(q, f) = InQs(r, f) + OneIf(Head(q.inputPPQ) = f)
  <2>1. Count(q.inputPPQ, f) = Count(r.inputPPQ, f) + OneIf(Head(q.inputPPQ) = f)
    BY <1>1, <1>2, CountTaken
  <2>2. OneIf(Head(q.inputPPQ) = f) \in Nat
    BY DEF OneIf
  <2>3. q \in Queues /\ r \in Queues
    BY <1>2
  <2>4. HasMore(r, q, f, OneIf(Head(q.inputPPQ) = f))
    BY <1>2, <2>1 DEF HasMore
  <2> QED  BY <2>2, <2>3, <2>4, OneHasMore
<1>4. Head(q.inputPPQ) \in Frames
  BY <1>1
<1> QED  BY <1>1, <1>2, <1>3, <1>4

LEMMA TakenFromOngoingPPQ ==
    ASSUME NEW q \in Queues, q.ongoingPPQ # <<>>, NEW r, r = [q EXCEPT !.ongoingPPQ = Tail(q.ongoingPPQ)]
    PROVE  /\ r \in Queues /\ Head(q.ongoingPPQ) \in Frames
           /\ \A f : InQs(q, f) = InQs(r, f) + OneIf(Head(q.ongoingPPQ) = f)
<1>1. q.ongoingPPQ \in Seq(Frames) /\ Tail(q.ongoingPPQ) \in Seq(Frames) /\ Head(q.ongoingPPQ) \in Frames
  BY HeadTailProperties DEF Queues
<1>2. r \in Queues /\ SameBut(r, q, {"ongoingPPQ"}) /\ r.ongoingPPQ = Tail(q.ongoingPPQ)
  BY <1>1 DEF Queues, SameBut
<1>3. ASSUME NEW f PROVE InQs(q, f) = InQs(r, f) + OneIf(Head(q.ongoingPPQ) = f)
  <2>1. Count(q.ongoingPPQ, f) = Count(r.ongoingPPQ, f) + OneIf(Head(q.ongoingPPQ) = f)
    BY <1>1, <1>2, CountTaken
  <2>2. OneIf(Head(q.ongoingPPQ) = f) \in Nat
    BY DEF OneIf
  <2>3. q \in Queues /\ r \in Queues
    BY <1>2
  <2>4. HasMore(r, q, f, OneIf(Head(q.ongoingPPQ) = f))
    BY <1>2, <2>1 DEF HasMore
  <2> QED  BY <2>2, <2>3, <2>4, OneHasMore
<1>4. Head(q.ongoingPPQ) \in Frames
  BY <1>1
<1> QED  BY <1>1, <1>2, <1>3, <1>4

LEMMA TakenFromInputRawQ ==
    ASSUME NEW q \in Queues, q.inputRawQ # <<>>, NEW r, r = [q EXCEPT !.inputRawQ = Tail(q.inputRawQ)]
    PROVE  /\ r \in Queues /\ Head(q.inputRawQ) \in Callbacks
           /\ \A f : InQs(q, f) = InQs(r, f) + OneIf(Head(q.inputRawQ) = <<f>>)
<1>1. q.inputRawQ \in Seq(Callbacks) /\ Tail(q.inputRawQ) \in Seq(Callbacks) /\ Head(q.inputRawQ) \in Callbacks
  BY HeadTailProperties DEF Queues
<1>2. r \in Queues /\ SameBut(r, q, {"inputRawQ"}) /\ r.inputRawQ = Tail(q.inputRawQ)
  BY <1>1 DEF Queues, SameBut
<1>3. ASSUME NEW f PROVE InQs(q, f) = InQs(r, f) + OneIf(Head(q.inputRawQ) = <<f>>)
  <2>1. Count(q.inputRawQ, <<f>>) = Count(Tail(q.inputRawQ), <<f>>) + OneIf(Head(q.inputRawQ) = <<f>>)
    <3> DEFINE y == <<f>>
    <3> HIDE DEF y
    <3>1. Count(q.inputRawQ, y) = Count(Tail(q.inputRawQ), y) + OneIf(Head(q.inputRawQ) = y)
      BY <1>1, CountTaken
    <3> QED  BY <3>1 DEF y
  <2>2. OneIf(Head(q.inputRawQ) = <<f>>) \in Nat
    BY DEF OneIf
  <2>3. q \in Queues /\ r \in Queues
    BY <1>2
  <2>4. HasMore(r, q, f, OneIf(Head(q.inputRawQ) = <<f>>))
    BY <1>2, <2>1 DEF HasMore
  <2> QED  BY <2>2, <2>3, <2>4, OneHasMore
<1>4. Head(q.inputRawQ) \in Callbacks
  BY <1>1
<1> QED  BY <1>1, <1>2, <1>3, <1>4

LEMMA TakenFromInputJpegQ ==
    ASSUME NEW q \in Queues, q.inputJpegQ # <<>>, NEW r, r = [q EXCEPT !.inputJpegQ = Tail(q.inputJpegQ)]
    PROVE  /\ r \in Queues /\ Head(q.inputJpegQ) \in Jobs /\ Head(q.inputJpegQ).src \in Frames
           /\ \A f : InQs(q, f) = InQs(r, f) + OneIf(Head(q.inputJpegQ).src = f)
<1>1. q.inputJpegQ \in Seq(Jobs) /\ Tail(q.inputJpegQ) \in Seq(Jobs) /\ Head(q.inputJpegQ) \in Jobs
  BY HeadTailProperties DEF Queues
<1>2. r \in Queues /\ SameBut(r, q, {"inputJpegQ"}) /\ r.inputJpegQ = Tail(q.inputJpegQ)
  BY <1>1 DEF Queues, SameBut
<1>3. ASSUME NEW f PROVE InQs(q, f) = InQs(r, f) + OneIf(Head(q.inputJpegQ).src = f)
  <2>1. Count(Sources(q.inputJpegQ), f) = Count(Sources(r.inputJpegQ), f) + OneIf(Head(q.inputJpegQ).src = f)
    BY <1>1, <1>2, JobsTaken
  <2>2. OneIf(Head(q.inputJpegQ).src = f) \in Nat
    BY DEF OneIf
  <2>3. q \in Queues /\ r \in Queues
    BY <1>2
  <2>4. HasMore(r, q, f, OneIf(Head(q.inputJpegQ).src = f))
    BY <1>2, <2>1 DEF HasMore
  <2> QED  BY <2>2, <2>3, <2>4, OneHasMore
<1>4. Head(q.inputJpegQ).src \in Frames
  BY <1>1 DEF Jobs
<1> QED  BY <1>1, <1>2, <1>3, <1>4

LEMMA TakenFromOngoingJpegQ ==
    ASSUME NEW q \in Queues, q.ongoingJpegQ # <<>>, NEW r, r = [q EXCEPT !.ongoingJpegQ = Tail(q.ongoingJpegQ)]
    PROVE  /\ r \in Queues /\ Head(q.ongoingJpegQ) \in Jobs /\ Head(q.ongoingJpegQ).src \in Frames
           /\ \A f : InQs(q, f) = InQs(r, f) + OneIf(Head(q.ongoingJpegQ).src = f)
<1>1. q.ongoingJpegQ \in Seq(Jobs) /\ Tail(q.ongoingJpegQ) \in Seq(Jobs) /\ Head(q.ongoingJpegQ) \in Jobs
  BY HeadTailProperties DEF Queues
<1>2. r \in Queues /\ SameBut(r, q, {"ongoingJpegQ"}) /\ r.ongoingJpegQ = Tail(q.ongoingJpegQ)
  BY <1>1 DEF Queues, SameBut
<1>3. ASSUME NEW f PROVE InQs(q, f) = InQs(r, f) + OneIf(Head(q.ongoingJpegQ).src = f)
  <2>1. Count(Sources(q.ongoingJpegQ), f) = Count(Sources(r.ongoingJpegQ), f) + OneIf(Head(q.ongoingJpegQ).src = f)
    BY <1>1, <1>2, JobsTaken
  <2>2. OneIf(Head(q.ongoingJpegQ).src = f) \in Nat
    BY DEF OneIf
  <2>3. q \in Queues /\ r \in Queues
    BY <1>2
  <2>4. HasMore(r, q, f, OneIf(Head(q.ongoingJpegQ).src = f))
    BY <1>2, <2>1 DEF HasMore
  <2> QED  BY <2>2, <2>3, <2>4, OneHasMore
<1>4. Head(q.ongoingJpegQ).src \in Frames
  BY <1>1 DEF Jobs
<1> QED  BY <1>1, <1>2, <1>3, <1>4

LEMMA DroppedFromOngoingPPQ ==
    ASSUME NEW q \in Queues, q.ongoingPPQ # <<>>, NEW r, r = [q EXCEPT !.ongoingPPQ = Front(q.ongoingPPQ)]
    PROVE  /\ r \in Queues /\ Last(q.ongoingPPQ) \in Frames
           /\ \A f : InQs(q, f) = InQs(r, f) + OneIf(Last(q.ongoingPPQ) = f)
<1>1. q.ongoingPPQ \in Seq(Frames) /\ Front(q.ongoingPPQ) \in Seq(Frames) /\ Last(q.ongoingPPQ) \in Frames
  BY FrontAndLast DEF Queues
<1>2. r \in Queues /\ SameBut(r, q, {"ongoingPPQ"}) /\ r.ongoingPPQ = Front(q.ongoingPPQ)
  BY <1>1 DEF Queues, SameBut
<1>3. ASSUME NEW f PROVE InQs(q, f) = InQs(r, f) + OneIf(Last(q.ongoingPPQ) = f)
  <2>1. Count(q.ongoingPPQ, f) = Count(r.ongoingPPQ, f) + OneIf(Last(q.ongoingPPQ) = f)
    BY <1>1, <1>2, CountFront
  <2>2. OneIf(Last(q.ongoingPPQ) = f) \in Nat
    BY DEF OneIf
  <2>3. q \in Queues /\ r \in Queues
    BY <1>2
  <2>4. HasMore(r, q, f, OneIf(Last(q.ongoingPPQ) = f))
    BY <1>2, <2>1 DEF HasMore
  <2> QED  BY <2>2, <2>3, <2>4, OneHasMore
<1>4. Last(q.ongoingPPQ) \in Frames
  BY <1>1
<1> QED  BY <1>1, <1>2, <1>3, <1>4

LEMMA DroppedFromOngoingJpegQ ==
    ASSUME NEW q \in Queues, q.ongoingJpegQ # <<>>, NEW r, r = [q EXCEPT !.ongoingJpegQ = Front(q.ongoingJpegQ)]
    PROVE  /\ r \in Queues /\ Last(q.ongoingJpegQ) \in Jobs /\ Last(q.ongoingJpegQ).src \in Frames
           /\ \A f : InQs(q, f) = InQs(r, f) + OneIf(Last(q.ongoingJpegQ).src = f)
<1>1. q.ongoingJpegQ \in Seq(Jobs) /\ Front(q.ongoingJpegQ) \in Seq(Jobs) /\ Last(q.ongoingJpegQ) \in Jobs
  BY FrontAndLast DEF Queues
<1>2. r \in Queues /\ SameBut(r, q, {"ongoingJpegQ"}) /\ r.ongoingJpegQ = Front(q.ongoingJpegQ)
  BY <1>1 DEF Queues, SameBut
<1>3. ASSUME NEW f PROVE InQs(q, f) = InQs(r, f) + OneIf(Last(q.ongoingJpegQ).src = f)
  <2>1. Count(Sources(q.ongoingJpegQ), f) = Count(Sources(r.ongoingJpegQ), f) + OneIf(Last(q.ongoingJpegQ).src = f)
    BY <1>1, <1>2, JobsFront
  <2>2. OneIf(Last(q.ongoingJpegQ).src = f) \in Nat
    BY DEF OneIf
  <2>3. q \in Queues /\ r \in Queues
    BY <1>2
  <2>4. HasMore(r, q, f, OneIf(Last(q.ongoingJpegQ).src = f))
    BY <1>2, <2>1 DEF HasMore
  <2> QED  BY <2>2, <2>3, <2>4, OneHasMore
<1>4. Last(q.ongoingJpegQ).src \in Frames
  BY <1>1 DEF Jobs
<1> QED  BY <1>1, <1>2, <1>3, <1>4

LEMMA HandCounts ==
    ASSUME NEW p \in Procs, NEW f
    PROVE  Count(HandOf(p), f) \in Nat
<1>1. Sources(p.job) \in Seq(Frames) /\ <<>> \in Seq(Frames)
  BY SourcesType, EmptySeq DEF Procs
<1> QED  BY <1>1, CountIsNat DEF HandOf

LEMMA CallbackFrames == Callbacks \subseteq Seq(Frames)
<1>1. <<>> \in Seq(Frames)
  BY EmptySeq
<1>2. \A g \in Frames : <<g>> \in Seq(Frames)
  OBVIOUS
<1> QED  BY <1>1, <1>2 DEF Callbacks

LEMMA CallbackCount ==
    ASSUME NEW cb \in Callbacks, NEW f
    PROVE  Count(cb, f) = OneIf(cb = <<f>>)
<1>1. CASE cb = <<>>
  <2>1. ~ (cb = <<f>>)
    BY <1>1
  <2> QED  BY <1>1, <2>1, CountNone DEF OneIf
<1>2. ASSUME NEW g \in Frames, cb = <<g>> PROVE Count(cb, f) = OneIf(cb = <<f>>)
  <2>1. (<<g>> = <<f>>) <=> (g = f)
    OBVIOUS
  <2>2. Count(<<g>>, f) = OneIf(g = f)
    BY CountOne
  <2> QED  BY <1>2, <2>1, <2>2 DEF OneIf
<1> QED  BY <1>1, <1>2 DEF Callbacks

LEMMA NotifierCounts ==
    ASSUME NEW n \in Notifiers, NEW f
    PROVE  Count(n.dataQ, <<f>>) \in Nat /\ Count(n.cb, f) \in Nat /\ NotifierHas(n, f) \in Nat
<1>1. n.dataQ \in Seq(Callbacks) /\ n.cb \in Seq(Frames)
  BY CallbackFrames DEF Notifiers
<1>2. Count(n.dataQ, <<f>>) \in Nat /\ Count(n.cb, f) \in Nat
  BY <1>1, CountIsNat
<1> QED  BY <1>2 DEF NotifierHas

\* What a frame's count is made of is at the same places in all.
LEMMA HeldFrom ==
    ASSUME HeldOnce,
           \A f \in Frames :
             home'[f] + Count(channel'.cb, f) + InQs(queues', f) + Count(HandOf(proc'), f)
               + NotifierHas(notifier', f)
               = home[f] + Count(channel.cb, f) + InQs(queues, f) + Count(HandOf(proc), f)
                   + NotifierHas(notifier, f)
    PROVE  HeldOnce'
BY DEF HeldOnce, InQs, InQueues, HandOf, InHand, NotifierHas, InNotifier

LEMMA PlacesAreNat ==
    ASSUME TypeOK, NEW f \in Frames
    PROVE  /\ home[f] \in Nat /\ Count(channel.cb, f) \in Nat /\ InQs(queues, f) \in Nat
           /\ Count(HandOf(proc), f) \in Nat /\ NotifierHas(notifier, f) \in Nat
<1>1. /\ home \in [Frames -> Nat] /\ channel.cb \in Seq(Frames) /\ queues \in Queues
      /\ proc \in Procs /\ notifier \in Notifiers
  BY DEF TypeOK
<1> QED  BY <1>1, CountIsNat, QueueCounts, HandCounts, NotifierCounts

\* The frames move between the queues and the channel only.
LEMMA HeldMoved ==
    ASSUME TypeOK, HeldOnce, queues' \in Queues,
           \A f \in Frames :
             /\ home'[f] + InQs(queues', f) = home[f] + InQs(queues, f) /\ home'[f] \in Nat
             /\ Count(channel'.cb, f) = Count(channel.cb, f)
             /\ Count(HandOf(proc'), f) = Count(HandOf(proc), f)
             /\ NotifierHas(notifier', f) = NotifierHas(notifier, f)
    PROVE  HeldOnce'
<1> SUFFICES ASSUME NEW f \in Frames
             PROVE  home'[f] + Count(channel'.cb, f) + InQs(queues', f) + Count(HandOf(proc'), f)
                      + NotifierHas(notifier', f)
                      = home[f] + Count(channel.cb, f) + InQs(queues, f) + Count(HandOf(proc), f)
                          + NotifierHas(notifier, f)
  BY HeldFrom
<1> DEFINE a == home[f]
           b == home'[f]
           c == InQs(queues, f)
           d == InQs(queues', f)
           x == Count(channel.cb, f)
           y == Count(HandOf(proc), f)
           z == NotifierHas(notifier, f)
<1>1. a \in Nat /\ b \in Nat /\ c \in Nat /\ d \in Nat /\ x \in Nat /\ y \in Nat /\ z \in Nat
  BY PlacesAreNat, QueueCounts
<1>2. b + d = a + c
  OBVIOUS
<1>3. /\ Count(channel'.cb, f) = x /\ Count(HandOf(proc'), f) = y
      /\ NotifierHas(notifier', f) = z
  OBVIOUS
<1> HIDE DEF a, b, c, d, x, y, z
<1>4. b + x + d + y + z = a + x + c + y + z
  BY <1>1, <1>2
<1> QED  BY <1>3, <1>4 DEF a, b, c, d, x, y, z

\* The channel has what it had, and the other places have it between them.
LEMMA HeldKept ==
    ASSUME TypeOK, TypeOK', HeldOnce, channel'.cb = channel.cb,
           \A f \in Frames :
             home'[f] + InQs(queues', f) + Count(HandOf(proc'), f) + NotifierHas(notifier', f)
               = home[f] + InQs(queues, f) + Count(HandOf(proc), f) + NotifierHas(notifier, f)
    PROVE  HeldOnce'
<1> SUFFICES ASSUME NEW f \in Frames
             PROVE  home'[f] + Count(channel'.cb, f) + InQs(queues', f) + Count(HandOf(proc'), f)
                      + NotifierHas(notifier', f)
                      = home[f] + Count(channel.cb, f) + InQs(queues, f) + Count(HandOf(proc), f)
                          + NotifierHas(notifier, f)
  BY HeldFrom
<1> DEFINE x == Count(channel.cb, f)
           a == home[f]
           b == InQs(queues, f)
           c == Count(HandOf(proc), f)
           d == NotifierHas(notifier, f)
           a2 == home'[f]
           b2 == InQs(queues', f)
           c2 == Count(HandOf(proc'), f)
           d2 == NotifierHas(notifier', f)
<1>1. x \in Nat /\ a \in Nat /\ b \in Nat /\ c \in Nat /\ d \in Nat
  BY PlacesAreNat
<1>2. a2 \in Nat /\ b2 \in Nat /\ c2 \in Nat /\ d2 \in Nat
  <2>1. home' \in [Frames -> Nat] /\ queues' \in Queues /\ proc' \in Procs /\ notifier' \in Notifiers
    BY DEF TypeOK
  <2> QED  BY <2>1, QueueCounts, HandCounts, NotifierCounts
<1>3. a2 + b2 + c2 + d2 = a + b + c + d /\ Count(channel'.cb, f) = x
  OBVIOUS
<1> HIDE DEF x, a, b, c, d, a2, b2, c2, d2
<1>4. a2 + x + b2 + c2 + d2 = a + x + b + c + d
  BY <1>1, <1>2, <1>3
<1> QED  BY <1>3, <1>4 DEF x, a, b, c, d, a2, b2, c2, d2

-----------------------------------------------------------------------------
(* What a step leaves as it was                                            *)

\* No event was added about a job.
NoNewEnd ==
    \A i \in DOMAIN evt_queue' : evt_queue'[i].type = "jpeg" =>
      \E j \in DOMAIN evt_queue : evt_queue[j] = evt_queue'[i]

LEMMA SameStop ==
    ASSUME OneStop, UNCHANGED <<sync_sem, sm, m_state, reproc>>,
           Count(proc'.cmds, "stop") = Count(proc.cmds, "stop"),
           proc'.pc \in Stopping <=> proc.pc \in Stopping
    PROVE  OneStop'
BY DEF OneStop

LEMMA SameReproc ==
    ASSUME Reprocessed, reproc' = reproc, queues'.ongoingPPQ = queues.ongoingPPQ,
           proc'.pc = "reprocess" <=> proc.pc = "reprocess"
    PROVE  Reprocessed'
BY DEF Reprocessed

LEMMA SameJobs ==
    ASSUME JobInHand, NoNewEnd, queues'.ongoingJpegQ = queues.ongoingJpegQ, proc'.job = proc.job,
           proc'.pc \in {"encode", "store", "destroy", "flush"} => proc'.pc = proc.pc
    PROVE  JobInHand'
BY DEF JobInHand, NoNewEnd

LEMMA SameMade ==
    ASSUME MadeOK, queues'.ongoingJpegQ = queues.ongoingJpegQ, queues'.inputJpegQ = queues.inputJpegQ,
           reproc'.paired => reproc.paired
    PROVE  MadeOK'
BY DEF MadeOK

LEMMA SameNumbers ==
    ASSUME NumbersLast => Numbered, NoNewEnd, encoder' = encoder,
           queues'.ongoingJpegQ = queues.ongoingJpegQ, proc'.job = proc.job,
           proc'.pc = "store" <=> proc.pc = "store"
    PROVE  (NumbersLast => Numbered)'
<1> SUFFICES ASSUME Numbered PROVE Numbered'
  BY DEF NumbersLast
<1>1. \A i : Number(i)' = Number(i)
  BY DEF Number
<1> QED  BY <1>1 DEF Numbered, NoNewEnd

LEMMA NoEvent ==
    ASSUME evt_queue' = evt_queue
    PROVE  NoNewEnd
BY DEF NoNewEnd

LEMMA EventTaken ==
    ASSUME evt_queue \in Seq(Events), evt_queue # <<>>, evt_queue' = Tail(evt_queue)
    PROVE  evt_queue' \in Seq(Events) /\ NoNewEnd /\ Head(evt_queue) = evt_queue[1] /\ 1 \in DOMAIN evt_queue
<1>1. /\ evt_queue' \in Seq(Events) /\ Len(evt_queue) \in Nat \ {0}
      /\ Len(evt_queue') = Len(evt_queue) - 1
      /\ \A i \in 1 .. Len(evt_queue') : evt_queue'[i] = evt_queue[i + 1]
  BY HeadTailProperties, EmptySeq
<1>2. DOMAIN evt_queue = 1 .. Len(evt_queue) /\ DOMAIN evt_queue' = 1 .. Len(evt_queue')
  BY <1>1, LenProperties
<1>3. \A i \in DOMAIN evt_queue' : i + 1 \in DOMAIN evt_queue /\ evt_queue'[i] = evt_queue[i + 1]
  BY <1>1, <1>2
<1> QED  BY <1>1, <1>2, <1>3 DEF NoNewEnd

\* What the stop of a thread does to the counts.
LEMMA StopSends ==
    ASSUME TypeOK, NEW p \in Procs, NEW n \in Notifiers, NEW why, Stop(p, n, why)
    PROVE  /\ proc' \in Procs /\ proc'.pc = p.pc /\ proc'.job = p.job
           /\ Count(proc'.cmds, "stop") = Count(p.cmds, "stop") + 1
           /\ notifier' \in Notifiers /\ notifier'.pc = n.pc /\ notifier'.cb = n.cb
           /\ notifier'.dataQ = n.dataQ
           /\ sm' = why
BY ProcSentFirst, NotifierSentFirst DEF Stop, Commands

\* A step of the state machine thread, or of the application, that only
\* sends commands.
LEMMA OnlyCommands ==
    ASSUME IInv, UNCHANGED <<queues, encoder, home>>, NoNewEnd, channel'.cb = channel.cb,
           proc'.pc = proc.pc, proc'.job = proc.job,
           notifier'.dataQ = notifier.dataQ, notifier'.cb = notifier.cb,
           notifier'.pc = "idle" => notifier.pc = "idle",
           reproc'.paired => reproc.paired
    PROVE  /\ OneAtATime' /\ JobInHand' /\ MadeOK' /\ HeldOnce' /\ (NumbersLast => Numbered)'
           /\ reproc' = reproc => Reprocessed'
<1>1. JobInHand' /\ MadeOK' /\ (NumbersLast => Numbered)'
  BY SameJobs, SameMade, SameNumbers DEF IInv
<1>2. HeldOnce'
  BY HeldFrom DEF IInv, HandOf, NotifierHas
<1>3. OneAtATime'
  BY DEF IInv, OneAtATime
<1>4. reproc' = reproc => Reprocessed'
  BY SameReproc DEF IInv
<1> QED  BY <1>1, <1>2, <1>3, <1>4

LEMMA TakePictureStep ==
    ASSUME IInv, NEW n \in 1 .. use.images, TakePicture(n)
    PROVE  IInv'
<1> DEFINE p == Sent(proc, "start")
           m == SentFirst(notifier, "start")
<1>1. /\ sm = "idle" /\ m_state = "previewing" /\ UNCHANGED <<use, evt_queue, home, queues, sync_sem, encoder>>
      /\ pictures' = pictures + 1 /\ asked' = n /\ failed' = FALSE
      /\ \/ reproc' = reproc
         \/ reproc' = [on |-> TRUE, frames |-> <<>>,
                       paired |-> reproc.paired /\ queues.ongoingPPQ = <<>>]
  BY DEF TakePicture
<1>2. \/ /\ m_state' = "pic_taking" /\ channel' = [channel EXCEPT !.want = n]
         /\ proc' = p /\ notifier' = m /\ sm' = sm
      \/ Stop(p, m, "refused") /\ UNCHANGED <<m_state, channel>>
      \/ proc' = p /\ notifier' = m /\ UNCHANGED <<m_state, channel, sm>>
  BY DEF TakePicture
<1>3. /\ p \in Procs /\ p.pc = proc.pc /\ p.job = proc.job
      /\ Count(p.cmds, "stop") = Count(proc.cmds, "stop") + 0
      /\ m \in Notifiers /\ m.pc = notifier.pc /\ m.cb = notifier.cb /\ m.dataQ = notifier.dataQ
  BY ProcSent, NotifierSentFirst DEF IInv, TypeOK, Commands, OneIf
<1> HIDE DEF p, m
<1>4. n \in Nat
  <2>1. use.images \in Nat
    BY PostProcAssumption DEF IInv, TypeOK
  <2> QED  BY <2>1
<1>5. /\ proc' \in Procs /\ proc'.pc = proc.pc /\ proc'.job = proc.job
      /\ notifier' \in Notifiers /\ notifier'.pc = notifier.pc /\ notifier'.cb = notifier.cb
      /\ notifier'.dataQ = notifier.dataQ
      /\ channel' \in [want : Nat, cb : Seq(Frames)] /\ channel'.cb = channel.cb
      /\ \/ /\ sm' = "idle" /\ m_state' \in {"previewing", "pic_taking"}
            /\ Count(proc'.cmds, "stop") = Count(proc.cmds, "stop") + 0
         \/ /\ sm' = "refused" /\ m_state' = "previewing"
            /\ Count(proc'.cmds, "stop") = (Count(proc.cmds, "stop") + 0) + 1
  <2>1. CASE m_state' = "pic_taking" /\ channel' = [channel EXCEPT !.want = n]
             /\ proc' = p /\ notifier' = m /\ sm' = sm
    BY <1>1, <1>3, <1>4, <2>1 DEF IInv, TypeOK
  <2>2. CASE Stop(p, m, "refused") /\ UNCHANGED <<m_state, channel>>
    <3>1. TypeOK
      BY DEF IInv
    <3>2. /\ proc' \in Procs /\ proc'.pc = p.pc /\ proc'.job = p.job
          /\ Count(proc'.cmds, "stop") = Count(p.cmds, "stop") + 1
          /\ notifier' \in Notifiers /\ notifier'.pc = m.pc /\ notifier'.cb = m.cb
          /\ notifier'.dataQ = m.dataQ /\ sm' = "refused"
      BY <1>3, <2>2, <3>1, StopSends
    <3> QED  BY <1>1, <1>3, <2>2, <3>1, <3>2 DEF TypeOK
  <2>3. CASE proc' = p /\ notifier' = m /\ UNCHANGED <<m_state, channel, sm>>
    BY <1>1, <1>3, <2>3 DEF IInv, TypeOK
  <2> QED  BY <1>2, <2>1, <2>2, <2>3
<1>6. reproc' \in [on : BOOLEAN, frames : Seq(Frames), paired : BOOLEAN]
  <2>1. reproc \in [on : BOOLEAN, frames : Seq(Frames), paired : BOOLEAN]
    BY DEF IInv, TypeOK
  <2>2. <<>> \in Seq(Frames)
    BY EmptySeq
  <2>3. CASE reproc' = reproc
    BY <2>1, <2>3
  <2>4. CASE reproc' = [on |-> TRUE, frames |-> <<>>,
                        paired |-> reproc.paired /\ queues.ongoingPPQ = <<>>]
    <3> DEFINE none == <<>>
               both == reproc.paired /\ queues.ongoingPPQ = <<>>
    <3>1. none \in Seq(Frames) /\ both \in BOOLEAN
      BY <2>2
    <3>2. reproc' = [on |-> TRUE, frames |-> none, paired |-> both]
      BY <2>4
    <3> HIDE DEF none, both
    <3> QED  BY <3>1, <3>2
  <2> QED  BY <1>1, <2>3, <2>4
<1>7. TypeOK'
  <2>1. m_state' \in {"previewing", "pic_taking"} /\ sm' \in {"idle", "refused", "cancel", "done"}
    BY <1>5
  <2>2. pictures' \in Nat /\ asked' \in Nat /\ failed' \in BOOLEAN
    <3>1. pictures \in Nat
      BY DEF IInv, TypeOK
    <3>2. pictures' = pictures + 1 /\ asked' = n
      BY <1>1
    <3>3. failed' = FALSE
      BY <1>1
    <3>4. failed' \in BOOLEAN
      BY <3>3
    <3> QED  BY <1>4, <3>1, <3>2, <3>4
  <2> QED  BY <1>1, <1>5, <1>6, <2>1, <2>2 DEF IInv, TypeOK
<1>8. /\ Count(proc.cmds, "stop") \in Nat /\ sync_sem \in Nat
      /\ Count(proc.cmds, "stop") + OneIf(proc.pc \in Stopping) + sync_sem = 0
  BY <1>1, CountIsNat DEF IInv, TypeOK, OneStop, Procs, OneIf
<1>9. OneStop'
  <2> DEFINE c == Count(proc.cmds, "stop")
             d == Count(proc'.cmds, "stop")
             w == IF proc'.pc \in Stopping THEN 1 ELSE 0
  <2>1. c \in Nat /\ sync_sem \in Nat /\ w \in Nat /\ c + w + sync_sem = 0
    BY <1>5, <1>8 DEF OneIf
  <2>2. d = IF sm' = "idle" THEN c ELSE c + 1
    BY <1>5, <1>8
  <2> HIDE DEF c, d, w
  <2>3. d + w + sync_sem = IF sm' = "idle" THEN 0 ELSE 1
    BY <2>1, <2>2
  <2>4. sync_sem = 0
    BY <2>1
  <2> QED  BY <1>1, <2>3, <2>4 DEF OneStop, d, w
<1>10. Reprocessed'
  <2>1. Reprocessed /\ proc'.pc = proc.pc /\ queues' = queues
    BY <1>1, <1>5 DEF IInv
  <2>2. CASE reproc' = reproc
    BY <2>1, <2>2 DEF Reprocessed
  <2>3. CASE reproc' = [on |-> TRUE, frames |-> <<>>,
                        paired |-> reproc.paired /\ queues.ongoingPPQ = <<>>]
    <3>1. reproc'.on /\ reproc'.frames = <<>>
          /\ (reproc'.paired => reproc.paired /\ queues.ongoingPPQ = <<>>)
      BY <2>3
    <3>2. proc.pc = "reprocess" => queues.ongoingPPQ # <<>>
      BY <2>1 DEF Reprocessed
    <3> QED  BY <2>1, <3>1, <3>2 DEF Reprocessed
  <2> QED  BY <1>1, <2>2, <2>3
<1>11. OneAtATime' /\ JobInHand' /\ MadeOK' /\ HeldOnce' /\ (NumbersLast => Numbered)'
  <2>1. reproc'.paired => reproc.paired
    <3>1. CASE reproc' = reproc
      BY <3>1
    <3>2. CASE reproc' = [on |-> TRUE, frames |-> <<>>,
                          paired |-> reproc.paired /\ queues.ongoingPPQ = <<>>]
      <4>1. reproc'.paired = (reproc.paired /\ queues.ongoingPPQ = <<>>)
        BY <3>2
      <4> QED  BY <4>1
    <3> QED  BY <1>1, <3>1, <3>2
  <2>2. /\ UNCHANGED <<queues, encoder, home>> /\ NoNewEnd /\ channel'.cb = channel.cb
        /\ proc'.pc = proc.pc /\ proc'.job = proc.job
        /\ notifier'.dataQ = notifier.dataQ /\ notifier'.cb = notifier.cb
        /\ notifier'.pc = notifier.pc
    BY <1>1, <1>5, NoEvent
  <2> QED  BY <2>1, <2>2, OnlyCommands
<1> QED  BY <1>7, <1>9, <1>10, <1>11 DEF IInv

LEMMA CancelPictureStep ==
    ASSUME IInv, CancelPicture
    PROVE  IInv'
<1>1. /\ sm = "idle" /\ Stop(proc, notifier, "cancel")
      /\ UNCHANGED <<use, m_state, pictures, asked, failed, evt_queue, channel, home,
                     queues, sync_sem, encoder, reproc>>
  BY DEF CancelPicture
<1>2. /\ proc' \in Procs /\ proc'.pc = proc.pc /\ proc'.job = proc.job
      /\ Count(proc'.cmds, "stop") = Count(proc.cmds, "stop") + 1
      /\ notifier' \in Notifiers /\ notifier'.pc = notifier.pc /\ notifier'.cb = notifier.cb
      /\ notifier'.dataQ = notifier.dataQ /\ sm' = "cancel"
  BY <1>1, StopSends DEF IInv, TypeOK
<1>3. TypeOK'
  BY <1>1, <1>2 DEF IInv, TypeOK
<1>4. Count(proc.cmds, "stop") \in Nat /\ sync_sem \in Nat
  BY CountIsNat DEF IInv, TypeOK, Procs
<1>5. OneStop'
  BY <1>1, <1>2, <1>4 DEF IInv, OneStop
<1> QED  BY <1>1, <1>2, <1>3, <1>5, NoEvent, OnlyCommands DEF IInv

\* A number that an event tells the end of is not that of a job the encoder
\* has: flushing the jobs with it leaves those of the encoder.
LEMMA FlushStep ==
    ASSUME IInv, NEW id, id # 0,
           \A job \in Range(encoder.todo) \cup Range(encoder.ongoing) : Numbered => job.id # id,
           UNCHANGED <<encoder, reproc>>, NoNewEnd, proc'.pc = proc.pc, proc'.job = proc.job,
           queues'.inputJpegQ = queues.inputJpegQ,
           Left(queues.ongoingJpegQ, id, queues'.ongoingJpegQ)
    PROVE  JobInHand' /\ MadeOK' /\ (NumbersLast => Numbered)'
<1> DEFINE jobs == queues.ongoingJpegQ
           kept == queues'.ongoingJpegQ
<1>1. /\ kept \in Seq(Jobs) /\ jobs \in Seq(Jobs)
      /\ \A k \in DOMAIN kept : kept[k].id # id /\ kept[k] \in Range(jobs)
      /\ \A i \in DOMAIN jobs : jobs[i].id # id => jobs[i] \in Range(kept)
      /\ jobs # <<>> /\ jobs[Len(jobs)].id # id => kept # <<>> /\ kept[Len(kept)] = jobs[Len(jobs)]
  BY DEF Left, IInv, TypeOK, Queues
<1>2. /\ Range(kept) \subseteq Range(jobs)
      /\ DOMAIN kept = 1 .. Len(kept) /\ DOMAIN jobs = 1 .. Len(jobs)
      /\ Len(jobs) \in Nat /\ Len(kept) \in Nat
  <2>1. Range(kept) \subseteq Range(jobs)
    BY <1>1 DEF Range
  <2> QED  BY <1>1, <2>1, LenProperties
<1>3. jobs = <<>> => kept = <<>>
  <2> SUFFICES ASSUME jobs = <<>>, kept # <<>> PROVE FALSE
    OBVIOUS
  <2>1. Len(kept) \in Nat \ {0} /\ 1 \in DOMAIN kept
    BY <1>1, <1>2, EmptySeq
  <2>2. Range(jobs) = {}
    BY DEF Range
  <2> QED  BY <1>1, <2>1, <2>2
<1>4. proc.pc \in {"encode", "store"} =>
        jobs # <<>> /\ jobs[Len(jobs)].id = 0 /\ kept # <<>> /\ kept[Len(kept)] = jobs[Len(jobs)]
  BY <1>1 DEF IInv, JobInHand
<1>5. JobInHand'
  <2> HIDE DEF jobs, kept
  <2>1. /\ proc.pc = "store" =>
             proc.job[1].id # 0 /\ proc.job = <<[jobs[Len(jobs)] EXCEPT !.id = proc.job[1].id]>>
        /\ proc.pc \in {"destroy", "flush"} => jobs = <<>>
        /\ \A i \in DOMAIN evt_queue : evt_queue[i].type = "jpeg" => evt_queue[i].id # 0
    BY DEF IInv, JobInHand, jobs
  <2>2. /\ proc'.pc \in {"encode", "store"} => kept # <<>> /\ kept[Len(kept)].id = 0
        /\ proc'.pc = "store" =>
             proc'.job[1].id # 0 /\ proc'.job = <<[kept[Len(kept)] EXCEPT !.id = proc'.job[1].id]>>
        /\ proc'.pc \in {"destroy", "flush"} => kept = <<>>
    BY <1>3, <1>4, <2>1
  <2>3. \A i \in DOMAIN evt_queue' : evt_queue'[i].type = "jpeg" => evt_queue'[i].id # 0
    BY <2>1 DEF NoNewEnd
  <2> QED  BY <2>2, <2>3 DEF JobInHand, kept
<1>6. MadeOK'
  BY <1>2 DEF IInv, MadeOK
<1>7. ASSUME Numbered PROVE Numbered'
  <2>1. ASSUME NEW job \in Range(encoder.todo) \cup Range(encoder.ongoing)
        PROVE  \E k \in DOMAIN kept : Number(k)' = job.id /\ kept[k].src = job.src
    <3>1. job.id # id
      BY <1>7
    <3>2. PICK i \in DOMAIN jobs : Number(i) = job.id /\ jobs[i].src = job.src
      BY <1>7 DEF Numbered
    <3>3. CASE proc.pc = "store" /\ i = Len(jobs)
      <4>1. Len(kept) \in DOMAIN kept /\ kept[Len(kept)] = jobs[i]
        BY <1>1, <1>2, <1>4, <3>3, EmptySeq
      <4>2. PICK k \in DOMAIN kept : k = Len(kept) /\ kept[k] = jobs[i]
        BY <4>1
      <4>3. Number(k)' = proc.job[1].id /\ Number(i) = proc.job[1].id
        BY <3>3, <4>2 DEF Number
      <4> QED  BY <3>2, <4>2, <4>3
    <3>4. CASE ~ (proc.pc = "store" /\ i = Len(jobs))
      <4>1. jobs[i].id = job.id
        BY <3>2, <3>4 DEF Number
      <4>2. PICK k \in DOMAIN kept : kept[k] = jobs[i]
        BY <1>1, <3>1, <4>1 DEF Range
      <4>3. job.id # 0
        BY <1>7 DEF Numbered
      <4>4. ~ (proc'.pc = "store" /\ k = Len(kept))
        BY <1>4, <4>1, <4>2, <4>3
      <4>5. Number(k)' = kept[k].id
        BY <4>4 DEF Number
      <4> QED  BY <3>2, <4>1, <4>2, <4>5
    <3> QED  BY <3>3, <3>4
  <2> HIDE DEF jobs, kept
  <2> QED  BY <1>7, <2>1 DEF Numbered, NoNewEnd, kept
<1> QED  BY <1>5, <1>6, <1>7 DEF NumbersLast, IInv

LEMMA JpegEventStep ==
    ASSUME IInv, JpegEvent
    PROVE  IInv'
<1> DEFINE x == Head(evt_queue)
<1>1. /\ evt_queue # <<>> /\ x.type = "jpeg" /\ evt_queue' = Tail(evt_queue) /\ sm' = sm
      /\ UNCHANGED <<use, m_state, pictures, asked, channel, sync_sem, encoder, reproc>>
  BY DEF JpegEvent, NextEvent
<1>2. evt_queue' \in Seq(Events) /\ NoNewEnd /\ x = evt_queue[1] /\ 1 \in DOMAIN evt_queue
  BY <1>1, EventTaken DEF IInv, TypeOK
<1>3. CASE m_state # "pic_taking"
  <2>1. UNCHANGED <<queues, home, notifier, failed, proc>>
    BY <1>3 DEF JpegEvent
  <2>2. TypeOK' /\ OneStop'
    BY <1>1, <1>2, <2>1 DEF IInv, TypeOK, OneStop
  <2> QED  BY <1>1, <1>2, <2>1, <2>2, OnlyCommands DEF IInv
<1>4. CASE m_state = "pic_taking"
  <2>1. /\ FlushJob(x.id) /\ proc' = Sent(proc, "do")
        /\ notifier' = IF x.ok THEN Notified(<<>>) ELSE notifier
        /\ failed' = (failed \/ ~ x.ok)
    BY <1>4 DEF JpegEvent
  <2>2. x \in Events /\ x.type = "jpeg"
    BY <1>1, <1>2, HeadTailProperties DEF IInv, TypeOK
  <2>3. x.id # 0 /\ \A job \in Range(encoder.todo) \cup Range(encoder.ongoing) : Numbered => job.id # x.id
    BY <1>2, <2>2 DEF IInv, JobInHand, Numbered
  <2> DEFINE jobs == queues.ongoingJpegQ
  <2>4. PICK e \in Order(DOMAIN jobs \ WithId(jobs, x.id)) :
          queues' = [queues EXCEPT !.ongoingJpegQ = Picked(jobs, e)]
    BY <2>1 DEF FlushJob, WithId
  <2>5. home' = [f \in Frames |-> home[f]
                   + Cardinality({i \in WithId(jobs, x.id) : jobs[i].src = f})]
    BY <2>1 DEF FlushJob, WithId
  <2>6. jobs \in Seq(Jobs) /\ queues \in Queues
    BY DEF IInv, TypeOK, Queues
  <2> HIDE DEF x
  <2>7. Left(jobs, x.id, Picked(jobs, e))
    BY <2>6, FlushLeaves
  <2>8. /\ queues' \in Queues /\ queues'.ongoingJpegQ = Picked(jobs, e)
        /\ queues'.inputJpegQ = queues.inputJpegQ /\ queues'.ongoingPPQ = queues.ongoingPPQ
        /\ queues'.inputPPQ = queues.inputPPQ /\ queues'.inputRawQ = queues.inputRawQ
    BY <2>4, <2>6, <2>7 DEF Queues, Left
  <2>9. /\ proc' \in Procs /\ proc'.pc = proc.pc /\ proc'.job = proc.job
        /\ Count(proc'.cmds, "stop") = Count(proc.cmds, "stop") + 0
    BY <2>1, ProcSent DEF IInv, TypeOK, Commands, OneIf
  <2>10. JobInHand' /\ MadeOK' /\ (NumbersLast => Numbered)'
    BY <1>1, <1>2, <2>3, <2>7, <2>8, <2>9, FlushStep
  <2>11. /\ notifier' \in Notifiers /\ notifier'.pc = notifier.pc /\ notifier'.cb = notifier.cb
         /\ \A f : Count(notifier'.dataQ, <<f>>) = Count(notifier.dataQ, <<f>>)
    <3>1. notifier \in Notifiers
      BY DEF IInv, TypeOK
    <3>2. CASE x.ok
      BY <2>1, <3>1, <3>2, NotifiedWithout
    <3> QED  BY <2>1, <3>1, <3>2
  <2>12. ASSUME NEW f \in Frames
         PROVE  /\ home'[f] \in Nat
                /\ home'[f] + InQs(queues', f) = home[f] + InQs(queues, f)
    <3> DEFINE g == Flushed(jobs, x.id, f)
               a == Count(Sources(jobs), f)
               b == Count(Sources(Picked(jobs, e)), f)
    <3>1. g \in Nat /\ a = b + g
      <4>1. jobs \in Seq(Jobs) /\ e \in Order(DOMAIN jobs \ WithId(jobs, x.id))
        BY <2>6
      <4> HIDE DEF x, jobs
      <4> QED  BY <4>1, FlushCounts
    <3>2. home[f] \in Nat /\ home'[f] = home[f] + g
      BY <2>5 DEF IInv, TypeOK, Flushed
    <3>3. /\ b \in Nat /\ Count(queues.inputPPQ, f) \in Nat /\ Count(queues.ongoingPPQ, f) \in Nat
          /\ Count(queues.inputRawQ, <<f>>) \in Nat
      BY <2>6, <2>8, QueueCounts
    <3>4. Count(Sources(queues.inputJpegQ), f) \in Nat
      BY <2>6, QueueCounts
    <3>5. /\ InQs(queues, f) = Count(queues.inputPPQ, f) + Count(queues.ongoingPPQ, f)
                                 + Count(queues.inputRawQ, <<f>>) + Count(Sources(queues.inputJpegQ), f) + a
          /\ InQs(queues', f) = Count(queues.inputPPQ, f) + Count(queues.ongoingPPQ, f)
                                 + Count(queues.inputRawQ, <<f>>) + Count(Sources(queues.inputJpegQ), f) + b
      BY <2>8 DEF InQs
    <3> HIDE DEF a, b, g
    <3> QED  BY <3>1, <3>2, <3>3, <3>4, <3>5
  <2>13. HeldOnce'
    <3>1. \A f \in Frames :
            /\ Count(channel'.cb, f) = Count(channel.cb, f)
            /\ Count(HandOf(proc'), f) = Count(HandOf(proc), f)
            /\ NotifierHas(notifier', f) = NotifierHas(notifier, f)
      BY <1>1, <2>9, <2>11 DEF HandOf, NotifierHas
    <3>2. TypeOK /\ HeldOnce
      BY DEF IInv
    <3> QED  BY <2>8, <2>12, <3>1, <3>2, HeldMoved
  <2>14. TypeOK'
    <3>1. home' \in [Frames -> Nat]
      BY <2>5, <2>12
    <3>2. failed' \in BOOLEAN
      BY <2>1
    <3> QED  BY <1>1, <1>2, <2>8, <2>9, <2>11, <3>1, <3>2 DEF IInv, TypeOK
  <2>15. OneAtATime' /\ OneStop' /\ Reprocessed'
    <3>1. Count(proc.cmds, "stop") \in Nat
      BY CountIsNat DEF IInv, TypeOK, Procs
    <3>2. OneStop'
      BY <1>1, <2>9, <3>1, SameStop DEF IInv
    <3> QED  BY <1>1, <2>8, <2>9, <2>11, <3>2, SameReproc DEF IInv, OneAtATime
  <2> QED  BY <2>10, <2>13, <2>14, <2>15 DEF IInv
<1> QED  BY <1>3, <1>4

LEMMA SnapshotDoneStep ==
    ASSUME IInv, SnapshotDone
    PROVE  IInv'
<1>1. /\ sm = "idle" /\ evt_queue # <<>> /\ evt_queue' = Tail(evt_queue)
      /\ UNCHANGED <<use, m_state, pictures, asked, channel, sync_sem, encoder, reproc>>
      /\ UNCHANGED <<failed, home, queues>>
  BY DEF SnapshotDone, NextEvent
<1>2. evt_queue' \in Seq(Events) /\ NoNewEnd
  BY <1>1, EventTaken DEF IInv, TypeOK
<1>3. Count(proc.cmds, "stop") \in Nat /\ sync_sem \in Nat
  BY CountIsNat DEF IInv, TypeOK, Procs
<1>4. /\ proc' \in Procs /\ proc'.pc = proc.pc /\ proc'.job = proc.job
      /\ notifier' \in Notifiers /\ notifier'.cb = notifier.cb /\ notifier'.dataQ = notifier.dataQ
      /\ notifier'.pc = "idle" => notifier.pc = "idle"
      /\ \/ sm' = "done" /\ Count(proc'.cmds, "stop") = Count(proc.cmds, "stop") + 1
         \/ sm' = sm /\ proc' = proc
  <2>1. CASE m_state = "pic_taking"
    <3>1. Stop(proc, notifier, "done")
      BY <2>1 DEF SnapshotDone
    <3> QED  BY <3>1, StopSends DEF IInv, TypeOK
  <2>2. CASE m_state # "pic_taking"
    <3>1. notifier' = [notifier EXCEPT !.pc = "deliver"] /\ UNCHANGED <<proc, sm>>
      BY <2>2 DEF SnapshotDone
    <3> QED  BY <3>1 DEF IInv, TypeOK, Notifiers
  <2> QED  BY <2>1, <2>2
<1>5. TypeOK'
  BY <1>1, <1>2, <1>4 DEF IInv, TypeOK
<1>6. OneStop'
  <2>1. CASE sm' = sm /\ proc' = proc
    BY <1>1, <2>1 DEF IInv, OneStop
  <2>2. CASE sm' = "done" /\ Count(proc'.cmds, "stop") = Count(proc.cmds, "stop") + 1
    BY <1>1, <1>3, <1>4, <2>2 DEF IInv, OneStop
  <2> QED  BY <1>4, <2>1, <2>2
<1> QED  BY <1>1, <1>2, <1>4, <1>5, <1>6, OnlyCommands DEF IInv

LEMMA StoppedStep ==
    ASSUME IInv, Stopped
    PROVE  IInv'
<1>1. /\ sm # "idle" /\ sync_sem > 0
      /\ sync_sem' = sync_sem - 1 /\ sm' = "idle" /\ m_state' = "previewing"
      /\ UNCHANGED <<use, pictures, asked, failed, evt_queue, home, queues, proc, encoder, reproc>>
  BY DEF Stopped
<1>2. channel' \in [want : Nat, cb : Seq(Frames)] /\ channel'.cb = channel.cb
  BY DEF Stopped, IInv, TypeOK
<1>3. /\ notifier' \in Notifiers /\ notifier'.cb = notifier.cb /\ notifier'.dataQ = notifier.dataQ
      /\ notifier'.pc = "idle" => notifier.pc = "idle"
  BY DEF Stopped, IInv, TypeOK, Notifiers
<1>4. Count(proc.cmds, "stop") \in Nat /\ sync_sem \in Nat
  BY CountIsNat DEF IInv, TypeOK, Procs
<1>5. sync_sem' = 0 /\ OneStop'
  <2>1. Count(proc.cmds, "stop") + OneIf(proc.pc \in Stopping) + sync_sem = 1
    BY <1>1 DEF IInv, OneStop, OneIf
  <2>2. /\ Count(proc.cmds, "stop") = 0 /\ sync_sem = 1 /\ proc.pc \notin Stopping
        /\ ~ reproc.on
    BY <1>1, <1>4, <2>1 DEF OneIf, IInv, OneStop
  <2> QED  BY <1>1, <2>2 DEF OneStop
<1>6. TypeOK'
  BY <1>1, <1>2, <1>3, <1>5 DEF IInv, TypeOK
<1> QED  BY <1>1, <1>2, <1>3, <1>5, <1>6, NoEvent, OnlyCommands DEF IInv

-----------------------------------------------------------------------------
(* The ZSL channel                                                         *)

LEMMA GiveStep ==
    ASSUME IInv, NEW f \in Frames, Give(f)
    PROVE  IInv'
<1>1. /\ channel.want > 0 /\ home[f] > 0
      /\ channel' = [want |-> channel.want - 1, cb |-> Append(channel.cb, f)]
      /\ home' = [home EXCEPT ![f] = @ - 1]
      /\ UNCHANGED <<use, m_state, sm, pictures, asked, evt_queue, failed, queues, proc, sync_sem,
                     encoder, reproc, notifier>>
  BY DEF Give, apiVars
<1>2. channel.cb \in Seq(Frames) /\ channel.want \in Nat /\ home \in [Frames -> Nat]
  BY DEF IInv, TypeOK
<1>3. TypeOK'
  <2>1. Append(channel.cb, f) \in Seq(Frames)
    BY <1>2, AppendProperties
  <2>2. channel' \in [want : Nat, cb : Seq(Frames)] /\ home' \in [Frames -> Nat]
    BY <1>1, <1>2, <2>1
  <2> QED  BY <1>1, <2>2 DEF IInv, TypeOK
<1>4. HeldOnce'
  <2>1. ASSUME NEW g \in Frames
        PROVE  home'[g] + Count(channel'.cb, g) = home[g] + Count(channel.cb, g)
    <3> DEFINE a == Count(channel.cb, g)
               b == Count(Append(channel.cb, f), g)
    <3>1. b = a + OneIf(f = g) /\ a \in Nat
      <4>1. a \in Nat
        BY <1>2, CountIsNat
      <4>2. b = a + OneIf(f = g)
        BY <1>2, CountAppended
      <4> QED  BY <4>1, <4>2
    <3>2. home[g] \in Nat /\ home'[g] = IF g = f THEN home[g] - 1 ELSE home[g]
      BY <1>1, <1>2
    <3>3. channel'.cb = Append(channel.cb, f)
      BY <1>1
    <3> HIDE DEF a, b
    <3>4. home'[g] + b = home[g] + a
      BY <3>1, <3>2 DEF OneIf
    <3> QED  BY <3>3, <3>4 DEF a, b
  <2> QED  BY <1>1, <2>1, HeldFrom DEF IInv
<1>5. OneAtATime' /\ OneStop' /\ Reprocessed' /\ JobInHand' /\ MadeOK' /\ (NumbersLast => Numbered)'
  BY <1>1, NoEvent, SameReproc, SameJobs, SameMade, SameNumbers DEF IInv, OneAtATime, OneStop
<1> QED  BY <1>3, <1>4, <1>5 DEF IInv

\* A job or a frame more, and the command for it.
LEMMA JobIsNew ==
    ASSUME NEW src \in Frames, NEW made \in Frames
    PROVE  Job(src, made) \in Jobs /\ Job(src, made).src = src /\ Job(src, made).made = made
           /\ Job(src, made).id = 0
BY DEF Job, Jobs

LEMMA ZslChannelCbStep ==
    ASSUME IInv, ZslChannelCb
    PROVE  IInv'
<1> DEFINE f == Head(channel.cb)
<1>1. /\ channel.cb # <<>> /\ channel' = [channel EXCEPT !.cb = Tail(@)]
      /\ UNCHANGED <<use, m_state, sm, pictures, asked, evt_queue, failed, home, sync_sem, encoder,
                     reproc, notifier>>
  BY DEF ZslChannelCb, apiVars
<1>2. channel \in [want : Nat, cb : Seq(Frames)] /\ queues \in Queues /\ proc \in Procs
  BY DEF IInv, TypeOK
<1>3. /\ f \in Frames /\ Tail(channel.cb) \in Seq(Frames)
      /\ \A g : Count(channel.cb, g) = Count(Tail(channel.cb), g) + OneIf(f = g)
      /\ \A g : Count(Tail(channel.cb), g) \in Nat
  <2>1. channel.cb \in Seq(Frames)
    BY <1>2
  <2>2. /\ f \in Frames /\ Tail(channel.cb) \in Seq(Frames)
        /\ \A g : Count(channel.cb, g) = Count(Tail(channel.cb), g) + OneIf(f = g)
    BY <1>1, <2>1, CountTaken
  <2>3. \A g : Count(Tail(channel.cb), g) \in Nat
    BY <2>2, CountIsNat
  <2> QED  BY <2>2, <2>3
<1>4. channel' \in [want : Nat, cb : Seq(Frames)] /\ channel'.cb = Tail(channel.cb)
  BY <1>1, <1>2, <1>3
<1>5. /\ proc' \in Procs /\ proc'.pc = proc.pc /\ proc'.job = proc.job
      /\ Count(proc'.cmds, "stop") = Count(proc.cmds, "stop")
  <2> DEFINE p == Sent(proc, "do")
  <2>1. /\ p \in Procs /\ p.pc = proc.pc /\ p.job = proc.job
        /\ Count(p.cmds, "stop") = Count(proc.cmds, "stop") + 0
        /\ Count(proc.cmds, "stop") \in Nat
    BY <1>2, ProcSent, CountIsNat DEF Commands, OneIf, Procs
  <2> HIDE DEF p
  <2>2. /\ Sent(p, "do") \in Procs /\ Sent(p, "do").pc = p.pc /\ Sent(p, "do").job = p.job
        /\ Count(Sent(p, "do").cmds, "stop") = Count(p.cmds, "stop") + 0
    BY <2>1, ProcSent DEF Commands, OneIf
  <2>3. proc' = Sent(p, "do") \/ proc' = p
    BY DEF ZslChannelCb, p
  <2> QED  BY <2>1, <2>2, <2>3
<1> DEFINE job == Job(f, f)
<1>6. \/ queues' = [queues EXCEPT !.inputPPQ = Append(queues.inputPPQ, f)]
      \/ queues' = [queues EXCEPT !.inputRawQ = Append(queues.inputRawQ, <<f>>)]
      \/ queues' = [queues EXCEPT !.inputJpegQ = Append(queues.inputJpegQ, job)]
  <2>1. use.kind \in {"jpeg", "reproc", "raw", "yuv"}
    BY PostProcAssumption DEF IInv, TypeOK
  <2> QED  BY <2>1 DEF ZslChannelCb, Reprocesses
<1>7. job \in Jobs /\ job.src = f /\ job.made = f /\ job.id = 0
  BY <1>3, JobIsNew
<1> HIDE DEF f, job
<1>8. /\ queues' \in Queues /\ queues'.ongoingPPQ = queues.ongoingPPQ
      /\ queues'.ongoingJpegQ = queues.ongoingJpegQ
      /\ queues'.inputJpegQ = queues.inputJpegQ \/ queues'.inputJpegQ = Append(queues.inputJpegQ, job)
      /\ \A g : InQs(queues', g) = InQs(queues, g) + OneIf(f = g)
  <2>1. CASE queues' = [queues EXCEPT !.inputPPQ = Append(queues.inputPPQ, f)]
    <3>1. queues' \in Queues /\ \A g : InQs(queues', g) = InQs(queues, g) + OneIf(f = g)
      <4>1. queues \in Queues /\ f \in Frames
        BY <1>2, <1>3
      <4> QED  BY <2>1, <4>1, AddedToInputPPQ
    <3> QED  BY <1>2, <2>1, <3>1 DEF Queues
  <2>2. CASE queues' = [queues EXCEPT !.inputRawQ = Append(queues.inputRawQ, <<f>>)]
    <3>1. queues' \in Queues /\ \A g : InQs(queues', g) = InQs(queues, g) + OneIf(f = g)
      <4>1. queues \in Queues /\ <<f>> \in Callbacks
        BY <1>2, <1>3 DEF Callbacks
      <4>2. \A g : InQs(queues', g) = InQs(queues, g) + OneIf(<<f>> = <<g>>)
        BY <2>2, <4>1, AddedToInputRawQ
      <4>3. \A g : (<<f>> = <<g>>) <=> (f = g)
        OBVIOUS
      <4>4. queues' \in Queues
        BY <2>2, <4>1, AddedToInputRawQ
      <4> QED  BY <4>2, <4>3, <4>4 DEF OneIf
    <3> QED  BY <1>2, <2>2, <3>1 DEF Queues
  <2>3. CASE queues' = [queues EXCEPT !.inputJpegQ = Append(queues.inputJpegQ, job)]
    <3>1. queues' \in Queues /\ \A g : InQs(queues', g) = InQs(queues, g) + OneIf(job.src = g)
      <4>1. queues \in Queues /\ job \in Jobs
        BY <1>2, <1>7
      <4> QED  BY <2>3, <4>1, AddedToInputJpegQ
    <3> QED  BY <1>2, <1>7, <2>3, <3>1 DEF Queues
  <2> QED  BY <1>6, <2>1, <2>2, <2>3
<1>9. TypeOK'
  BY <1>1, <1>4, <1>5, <1>8 DEF IInv, TypeOK
<1>10. HeldOnce'
  <2>1. ASSUME NEW g \in Frames
        PROVE  home'[g] + Count(channel'.cb, g) + InQs(queues', g) + Count(HandOf(proc'), g)
                 + NotifierHas(notifier', g)
                 = home[g] + Count(channel.cb, g) + InQs(queues, g) + Count(HandOf(proc), g)
                     + NotifierHas(notifier, g)
    <3> DEFINE h == home[g]
               a == Count(channel.cb, g)
               b == Count(channel'.cb, g)
               c == InQs(queues, g)
               d == InQs(queues', g)
               y == Count(HandOf(proc), g)
               z == NotifierHas(notifier, g)
               o == OneIf(f = g)
    <3>1. h \in Nat /\ b \in Nat /\ c \in Nat /\ y \in Nat /\ z \in Nat /\ o \in Nat
      BY <1>3, <1>4, PlacesAreNat DEF IInv, OneIf
    <3>2. a = b + o /\ d = c + o
      BY <1>3, <1>4, <1>8
    <3>3. home'[g] = h /\ Count(HandOf(proc'), g) = y /\ NotifierHas(notifier', g) = z
      BY <1>1, <1>5 DEF HandOf
    <3> HIDE DEF h, a, b, c, d, y, z, o
    <3>4. h + b + d + y + z = h + a + c + y + z
      BY <3>1, <3>2
    <3> QED  BY <3>3, <3>4 DEF h, a, b, c, d, y, z
  <2> QED  BY <2>1, HeldFrom DEF IInv
<1>11. MadeOK'
  <2>1. CASE queues'.inputJpegQ = queues.inputJpegQ
    BY <1>1, <1>8, <2>1, SameMade DEF IInv
  <2>2. CASE queues'.inputJpegQ = Append(queues.inputJpegQ, job)
    <3>1. queues.inputJpegQ \in Seq(Jobs)
      BY <1>2 DEF Queues
    <3>2. Range(Append(queues.inputJpegQ, job)) \subseteq Range(queues.inputJpegQ) \cup {job}
      BY <1>7, <3>1, RangeAppended
    <3> QED  BY <1>1, <1>7, <1>8, <2>2, <3>2 DEF IInv, MadeOK
  <2> QED  BY <1>8, <2>1, <2>2
<1>12. OneAtATime' /\ OneStop' /\ Reprocessed' /\ JobInHand' /\ (NumbersLast => Numbered)'
  BY <1>1, <1>5, <1>8, NoEvent, SameStop, SameReproc, SameJobs, SameNumbers DEF IInv, OneAtATime
<1> QED  BY <1>9, <1>10, <1>11, <1>12 DEF IInv

-----------------------------------------------------------------------------
(* The data-proc thread                                                    *)

\* Frames that are given back.
LEMMA Returned ==
    ASSUME TypeOK, NEW s \in Seq(Frames), GiveBack(s)
    PROVE  /\ home' \in [Frames -> Nat]
           /\ \A f \in Frames : home'[f] = home[f] + Count(s, f) /\ Count(s, f) \in Nat
<1>1. home' = [f \in Frames |-> home[f] + Count(s, f)]
  BY DEF GiveBack
<1>2. \A f \in Frames : home[f] \in Nat /\ Count(s, f) \in Nat
  BY CountIsNat DEF TypeOK
<1> QED  BY <1>1, <1>2

\* The thread takes a command.
LEMMA ProcGets ==
    ASSUME NEW cmd, ProcTakes(cmd), NEW pc \in {"idle", "encode", "raw", "abort"}, NEW on \in BOOLEAN,
           proc \in Procs, proc' = [Received(proc) EXCEPT !.active = on, !.pc = pc]
    PROVE  /\ proc.pc = "idle" /\ proc' \in Procs /\ proc'.pc = pc /\ proc'.job = proc.job
           /\ Count(proc.cmds, "stop") = Count(proc'.cmds, "stop") + OneIf(cmd = "stop")
           /\ Count(proc'.cmds, "stop") \in Nat
<1> DEFINE p == Received(proc)
<1>1. proc.pc = "idle" /\ proc.cmds # <<>> /\ Head(proc.cmds) = cmd
  BY DEF ProcTakes
<1>2. /\ p \in Procs /\ p.pc = proc.pc /\ p.job = proc.job
      /\ Count(proc.cmds, "stop") = Count(p.cmds, "stop") + OneIf(cmd = "stop")
  BY <1>1, ProcReceived
<1> HIDE DEF p
<1>3. proc' = [p EXCEPT !.active = on, !.pc = pc]
  BY DEF p
<1>4. proc' \in Procs /\ proc'.pc = pc /\ proc'.job = p.job /\ proc'.cmds = p.cmds
  BY <1>2, <1>3 DEF Procs, Stopping
<1>5. Count(p.cmds, "stop") \in Nat
  BY <1>2, CountIsNat DEF Procs
<1> QED  BY <1>1, <1>2, <1>4, <1>5

LEMMA ProcStartStep ==
    ASSUME IInv, ProcStart
    PROVE  IInv'
<1>1. /\ ProcTakes("start") /\ proc' = [Received(proc) EXCEPT !.active = TRUE]
      /\ UNCHANGED <<use, m_state, sm, pictures, asked, evt_queue, channel, sync_sem, reproc>>
      /\ UNCHANGED <<failed, home, queues, encoder, notifier>>
  BY DEF ProcStart, procOnly, apiVars
<1>2. proc \in Procs /\ proc.cmds # <<>> /\ Head(proc.cmds) = "start"
  BY <1>1 DEF IInv, TypeOK, ProcTakes
<1>3. /\ proc' \in Procs /\ proc'.pc = proc.pc /\ proc'.job = proc.job
      /\ Count(proc.cmds, "stop") = Count(proc'.cmds, "stop") + 0
      /\ Count(proc'.cmds, "stop") \in Nat
  <2> DEFINE p == Received(proc)
  <2>1. /\ p \in Procs /\ p.pc = proc.pc /\ p.job = proc.job
        /\ Count(proc.cmds, "stop") = Count(p.cmds, "stop") + 0
    BY <1>2, ProcReceived DEF OneIf
  <2>2. Count(p.cmds, "stop") \in Nat
    BY <2>1, CountIsNat DEF Procs
  <2>3. proc' = [p EXCEPT !.active = TRUE]
    BY <1>1
  <2> HIDE DEF p
  <2> QED  BY <2>1, <2>2, <2>3 DEF Procs
<1>4. TypeOK'
  BY <1>1, <1>3 DEF IInv, TypeOK
<1>5. OneStop'
  BY <1>1, <1>3, SameStop DEF IInv
<1> QED  BY <1>1, <1>3, <1>4, <1>5, NoEvent, OnlyCommands DEF IInv

\* One element less, if there is one.
LEMMA RestOfInputJpegQ ==
    ASSUME NEW q \in Queues, NEW r, r = [q EXCEPT !.inputJpegQ = Rest(q.inputJpegQ)]
    PROVE  /\ r \in Queues /\ AtMostOne(Sources(q.inputJpegQ)) \in Seq(Frames)
           /\ \A f : InQs(q, f) = InQs(r, f) + Count(AtMostOne(Sources(q.inputJpegQ)), f)
<1>1. CASE q.inputJpegQ = <<>>
  <2>1. r = q /\ AtMostOne(Sources(q.inputJpegQ)) = <<>>
    BY <1>1, SourcesNone DEF Rest, AtMostOne, Queues
  <2>2. \A f : Count(<<>>, f) = 0 /\ InQs(q, f) \in Nat
    BY CountNone, QueueCounts
  <2>3. \A f : InQs(q, f) = InQs(q, f) + Count(<<>>, f)
    <3> SUFFICES ASSUME NEW f PROVE InQs(q, f) = InQs(q, f) + Count(<<>>, f)
      OBVIOUS
    <3>1. InQs(q, f) \in Nat /\ Count(<<>>, f) = 0
      BY <2>2
    <3> QED  BY <3>1
  <2> QED  BY <2>1, <2>3, EmptySeq
<1>2. CASE q.inputJpegQ # <<>>
  <2>1. r = [q EXCEPT !.inputJpegQ = Tail(q.inputJpegQ)]
    BY <1>2 DEF Rest
  <2>2. /\ r \in Queues /\ Head(q.inputJpegQ).src \in Frames
        /\ \A f : InQs(q, f) = InQs(r, f) + OneIf(Head(q.inputJpegQ).src = f)
    BY <1>2, <2>1, TakenFromInputJpegQ
  <2>3. AtMostOne(Sources(q.inputJpegQ)) = <<Head(q.inputJpegQ).src>>
    <3>1. q.inputJpegQ \in Seq(Jobs)
      BY DEF Queues
    <3> QED  BY <1>2, <3>1, SourcesTaken DEF AtMostOne
  <2> QED  BY <2>2, <2>3, CountOne
<1> QED  BY <1>1, <1>2

LEMMA RestOfInputRawQ ==
    ASSUME NEW q \in Queues, NEW r, r = [q EXCEPT !.inputRawQ = Rest(q.inputRawQ)]
    PROVE  /\ r \in Queues /\ First(q.inputRawQ) \in Seq(Frames)
           /\ \A f : InQs(q, f) = InQs(r, f) + Count(First(q.inputRawQ), f)
<1>1. CASE q.inputRawQ = <<>>
  <2>1. r = q /\ First(q.inputRawQ) = <<>>
    BY <1>1 DEF Rest, First, Queues
  <2>2. \A f : Count(<<>>, f) = 0 /\ InQs(q, f) \in Nat
    BY CountNone, QueueCounts
  <2>3. \A f : InQs(q, f) = InQs(q, f) + Count(<<>>, f)
    <3> SUFFICES ASSUME NEW f PROVE InQs(q, f) = InQs(q, f) + Count(<<>>, f)
      OBVIOUS
    <3>1. InQs(q, f) \in Nat /\ Count(<<>>, f) = 0
      BY <2>2
    <3> QED  BY <3>1
  <2> QED  BY <2>1, <2>3, EmptySeq
<1>2. CASE q.inputRawQ # <<>>
  <2> DEFINE cb == Head(q.inputRawQ)
  <2>1. r = [q EXCEPT !.inputRawQ = Tail(q.inputRawQ)] /\ First(q.inputRawQ) = cb
    BY <1>2 DEF Rest, First
  <2>2. r \in Queues /\ cb \in Callbacks /\ \A f : InQs(q, f) = InQs(r, f) + OneIf(cb = <<f>>)
    BY <1>2, <2>1, TakenFromInputRawQ
  <2> HIDE DEF cb
  <2>3. \A f : Count(cb, f) = OneIf(cb = <<f>>)
    BY <2>2, CallbackCount
  <2>4. cb \in Seq(Frames)
    BY <2>2, CallbackFrames
  <2> QED  BY <2>1, <2>2, <2>3, <2>4
<1> QED  BY <1>1, <1>2

LEMMA RestOfInputPPQ ==
    ASSUME NEW q \in Queues, NEW r, r = [q EXCEPT !.inputPPQ = Rest(q.inputPPQ)]
    PROVE  /\ r \in Queues /\ AtMostOne(q.inputPPQ) \in Seq(Frames)
           /\ \A f : InQs(q, f) = InQs(r, f) + Count(AtMostOne(q.inputPPQ), f)
<1>1. CASE q.inputPPQ = <<>>
  <2>1. r = q /\ AtMostOne(q.inputPPQ) = <<>>
    BY <1>1 DEF Rest, AtMostOne, Queues
  <2>2. \A f : Count(<<>>, f) = 0 /\ InQs(q, f) \in Nat
    BY CountNone, QueueCounts
  <2>3. \A f : InQs(q, f) = InQs(q, f) + Count(<<>>, f)
    <3> SUFFICES ASSUME NEW f PROVE InQs(q, f) = InQs(q, f) + Count(<<>>, f)
      OBVIOUS
    <3>1. InQs(q, f) \in Nat /\ Count(<<>>, f) = 0
      BY <2>2
    <3> QED  BY <3>1
  <2> QED  BY <2>1, <2>3, EmptySeq
<1>2. CASE q.inputPPQ # <<>>
  <2>1. r = [q EXCEPT !.inputPPQ = Tail(q.inputPPQ)]
    BY <1>2 DEF Rest
  <2>2. /\ r \in Queues /\ Head(q.inputPPQ) \in Frames
        /\ \A f : InQs(q, f) = InQs(r, f) + OneIf(Head(q.inputPPQ) = f)
    BY <1>2, <2>1, TakenFromInputPPQ
  <2>3. AtMostOne(q.inputPPQ) = <<Head(q.inputPPQ)>>
    <3>1. q.inputPPQ \in Seq(Frames)
      BY DEF Queues
    <3> QED  BY <1>2, <3>1 DEF AtMostOne
  <2> QED  BY <2>2, <2>3, CountOne
<1> QED  BY <1>1, <1>2

LEMMA ProcReturnStep ==
    ASSUME IInv, ProcReturn
    PROVE  IInv'
<1> DEFINE x == AtMostOne(Sources(queues.inputJpegQ))
           y == First(queues.inputRawQ)
           z == AtMostOne(queues.inputPPQ)
           q == [queues EXCEPT !.inputJpegQ = Rest(queues.inputJpegQ)]
           r == [q EXCEPT !.inputRawQ = Rest(q.inputRawQ)]
<1>1. /\ ProcTakes("do") /\ proc' = Received(proc)
      /\ GiveBack(x \o y \o z)
      /\ UNCHANGED <<use, m_state, sm, pictures, asked, evt_queue, channel, sync_sem, reproc>>
      /\ UNCHANGED <<failed, encoder, notifier>>
  BY DEF ProcReturn, procOnly, apiVars
<1>2. /\ TypeOK /\ HeldOnce /\ queues \in Queues /\ proc \in Procs /\ proc.cmds # <<>>
      /\ Head(proc.cmds) = "do"
  BY <1>1 DEF IInv, TypeOK, ProcTakes
<1>3. /\ proc' \in Procs /\ proc'.pc = proc.pc /\ proc'.job = proc.job
      /\ Count(proc.cmds, "stop") = Count(proc'.cmds, "stop") + 0
  BY <1>1, <1>2, ProcReceived DEF OneIf
<1>4. Count(proc'.cmds, "stop") \in Nat
  BY <1>3, CountIsNat DEF Procs
<1>5. /\ q \in Queues /\ x \in Seq(Frames)
      /\ \A f : InQs(queues, f) = InQs(q, f) + Count(x, f)
  BY <1>2, RestOfInputJpegQ
<1>6. /\ r \in Queues /\ y \in Seq(Frames)
      /\ \A f : InQs(q, f) = InQs(r, f) + Count(y, f)
  <2>1. q.inputRawQ = queues.inputRawQ
    BY <1>2 DEF Queues
  <2> HIDE DEF q
  <2> QED  BY <1>5, <2>1, RestOfInputRawQ
<1>7. /\ queues' \in Queues /\ z \in Seq(Frames)
      /\ \A f : InQs(r, f) = InQs(queues', f) + Count(z, f)
  <2>1. r.inputPPQ = queues.inputPPQ
    BY <1>2 DEF Queues
  <2>2. queues' = [r EXCEPT !.inputPPQ = Rest(r.inputPPQ)]
    BY <1>2 DEF ProcReturn, Queues
  <2> HIDE DEF r
  <2> QED  BY <1>6, <2>1, <2>2, RestOfInputPPQ
<1>8. /\ queues'.ongoingPPQ = queues.ongoingPPQ /\ queues'.ongoingJpegQ = queues.ongoingJpegQ
      /\ queues'.inputJpegQ = Rest(queues.inputJpegQ)
  BY <1>2 DEF ProcReturn, Queues
<1> HIDE DEF q, r, x, y, z
<1>9. x \o y \o z \in Seq(Frames) /\ \A f : Count(x \o y \o z, f) = Count(x, f) + Count(y, f) + Count(z, f)
  <2>1. x \o y \in Seq(Frames) /\ \A f : Count(x \o y, f) = Count(x, f) + Count(y, f)
    BY <1>5, <1>6, ConcatProperties, CountConcat
  <2> DEFINE xy == x \o y
  <2> HIDE DEF xy
  <2>2. xy \in Seq(Frames) /\ \A f : Count(xy, f) = Count(x, f) + Count(y, f)
    BY <2>1 DEF xy
  <2>3. xy \o z \in Seq(Frames) /\ \A f : Count(xy \o z, f) = Count(xy, f) + Count(z, f)
    BY <1>7, <2>2, ConcatProperties, CountConcat
  <2> QED  BY <2>2, <2>3 DEF xy
<1>10. /\ home' \in [Frames -> Nat]
       /\ \A f \in Frames : home'[f] = home[f] + (Count(x, f) + Count(y, f) + Count(z, f))
  BY <1>1, <1>2, <1>9, Returned
<1>11. ASSUME NEW f \in Frames
       PROVE  home'[f] \in Nat /\ home'[f] + InQs(queues', f) = home[f] + InQs(queues, f)
  <2> DEFINE a == Count(x, f)
             b == Count(y, f)
             c == Count(z, f)
             h == home[f]
             d == InQs(queues', f)
             e == InQs(queues, f)
             d1 == InQs(q, f)
             d2 == InQs(r, f)
  <2>1. a \in Nat /\ b \in Nat /\ c \in Nat /\ h \in Nat /\ d \in Nat
    BY <1>2, <1>5, <1>6, <1>7, CountIsNat, PlacesAreNat, QueueCounts
  <2>2. home'[f] = h + (a + b + c) /\ e = d1 + a /\ d1 = d2 + b /\ d2 = d + c
    BY <1>5, <1>6, <1>7, <1>10
  <2> HIDE DEF a, b, c, d, e, h, d1, d2
  <2>3. h + (a + b + c) \in Nat /\ (h + (a + b + c)) + d = h + e
    BY <2>1, <2>2
  <2> QED  BY <2>2, <2>3 DEF d, e, h
<1>12. HeldOnce'
  <2>1. \A f \in Frames :
          /\ Count(channel'.cb, f) = Count(channel.cb, f)
          /\ Count(HandOf(proc'), f) = Count(HandOf(proc), f)
          /\ NotifierHas(notifier', f) = NotifierHas(notifier, f)
    BY <1>1, <1>3 DEF HandOf
  <2> QED  BY <1>2, <1>7, <1>11, <2>1, HeldMoved
<1>13. TypeOK'
  BY <1>1, <1>3, <1>7, <1>10 DEF IInv, TypeOK
<1>14. MadeOK'
  <2>1. Range(queues'.inputJpegQ) \subseteq Range(queues.inputJpegQ)
    <3>1. CASE queues.inputJpegQ = <<>>
      BY <1>8, <3>1 DEF Rest
    <3>2. CASE queues.inputJpegQ # <<>>
      <4>1. queues.inputJpegQ \in Seq(Jobs) /\ queues'.inputJpegQ = Tail(queues.inputJpegQ)
        BY <1>2, <1>8, <3>2 DEF Queues, Rest
      <4> QED  BY <3>2, <4>1, RangeTaken
    <3> QED  BY <3>1, <3>2
  <2> QED  BY <1>1, <1>8, <2>1 DEF IInv, MadeOK
<1>15. OneStop' /\ Reprocessed'
  BY <1>1, <1>3, <1>4, <1>8, SameStop, SameReproc DEF IInv
<1>16. OneAtATime' /\ JobInHand' /\ (NumbersLast => Numbered)'
  BY <1>1, <1>3, <1>8, NoEvent, SameJobs, SameNumbers DEF IInv, OneAtATime
<1> QED  BY <1>12, <1>13, <1>14, <1>15, <1>16 DEF IInv

\* Every job that has a number keeps it.
LEMMA NumbersKept ==
    ASSUME NumbersLast => Numbered, NoNewEnd, encoder' = encoder,
           \A i \in DOMAIN queues.ongoingJpegQ : Number(i) # 0 =>
             \E k \in DOMAIN queues'.ongoingJpegQ :
               Number(k)' = Number(i) /\ queues'.ongoingJpegQ[k].src = queues.ongoingJpegQ[i].src
    PROVE  (NumbersLast => Numbered)'
<1> SUFFICES ASSUME Numbered PROVE Numbered'
  BY DEF NumbersLast
<1>1. ASSUME NEW job \in Range(encoder.todo) \cup Range(encoder.ongoing)
      PROVE  \E k \in DOMAIN queues'.ongoingJpegQ :
               Number(k)' = job.id /\ queues'.ongoingJpegQ[k].src = job.src
  <2>1. job.id # 0
    BY DEF Numbered
  <2>2. PICK i \in DOMAIN queues.ongoingJpegQ :
          Number(i) = job.id /\ queues.ongoingJpegQ[i].src = job.src
    BY DEF Numbered
  <2> QED  BY <2>1, <2>2
<1> QED  BY <1>1 DEF Numbered, NoNewEnd

LEMMA ProcDoStep ==
    ASSUME IInv, ProcDo
    PROVE  IInv'
<1>1. /\ ProcTakes("do")
      /\ UNCHANGED <<use, m_state, sm, pictures, asked, evt_queue, channel, sync_sem, reproc>>
      /\ UNCHANGED <<failed, home, encoder, notifier>>
  BY DEF ProcDo, procOnly, apiVars
<1>2. /\ TypeOK /\ HeldOnce /\ queues \in Queues /\ proc \in Procs /\ proc.cmds # <<>>
      /\ Head(proc.cmds) = "do" /\ proc.pc = "idle"
  BY <1>1 DEF IInv, TypeOK, ProcTakes
<1>3. /\ proc' \in Procs /\ proc'.pc \in {"raw", "encode"} /\ proc'.job = proc.job
      /\ Count(proc'.cmds, "stop") = Count(proc.cmds, "stop")
      /\ proc'.pc = "raw" => queues' = queues
      /\ proc'.pc = "encode" => /\ queues.inputJpegQ # <<>>
                                /\ queues' = [queues EXCEPT !.inputJpegQ = Tail(@),
                                                !.ongoingJpegQ = Append(@, Head(queues.inputJpegQ))]
  <2> DEFINE p == Received(proc)
  <2>1. /\ p \in Procs /\ p.pc = proc.pc /\ p.job = proc.job
        /\ Count(proc.cmds, "stop") = Count(p.cmds, "stop") + 0
    BY <1>2, ProcReceived DEF OneIf
  <2>2. Count(p.cmds, "stop") \in Nat
    BY <2>1, CountIsNat DEF Procs
  <2>3. \/ proc' = [p EXCEPT !.pc = "raw"] /\ queues' = queues
        \/ /\ proc' = [p EXCEPT !.pc = "encode"] /\ queues.inputJpegQ # <<>>
           /\ queues' = [queues EXCEPT !.inputJpegQ = Tail(@),
                           !.ongoingJpegQ = Append(@, Head(queues.inputJpegQ))]
    BY DEF ProcDo
  <2> HIDE DEF p
  <2>4. proc' \in Procs /\ proc'.pc \in {"raw", "encode"} /\ proc'.job = p.job /\ proc'.cmds = p.cmds
    BY <2>1, <2>3 DEF Procs
  <2>5. /\ proc'.pc = "raw" => queues' = queues
        /\ proc'.pc = "encode" => /\ queues.inputJpegQ # <<>>
                                  /\ queues' = [queues EXCEPT !.inputJpegQ = Tail(@),
                                                  !.ongoingJpegQ = Append(@, Head(queues.inputJpegQ))]
    BY <2>1, <2>3 DEF Procs
  <2> QED  BY <2>1, <2>2, <2>4, <2>5
<1>4. Count(proc'.cmds, "stop") \in Nat /\ OneStop'
  BY <1>1, <1>2, <1>3, CountIsNat, SameStop DEF IInv, Stopping, Procs
<1>5. CASE proc'.pc = "raw"
  <2>1. queues' = queues
    BY <1>3, <1>5
  <2>2. HeldOnce'
    BY <1>1, <1>2, <1>3, <1>5, <2>1, HeldFrom DEF HandOf
  <2>3. TypeOK' /\ OneAtATime'
    BY <1>1, <1>3, <2>1 DEF IInv, TypeOK, OneAtATime
  <2>4. Reprocessed' /\ JobInHand' /\ MadeOK'
    BY <1>1, <1>2, <1>3, <1>5, <2>1, NoEvent, SameReproc, SameJobs, SameMade DEF IInv
  <2>5. (NumbersLast => Numbered)'
    BY <1>1, <1>2, <1>3, <1>5, <2>1, NoEvent, SameNumbers DEF IInv
  <2> QED  BY <1>4, <2>2, <2>3, <2>4, <2>5 DEF IInv
<1>6. CASE proc'.pc = "encode"
  <2> DEFINE job == Head(queues.inputJpegQ)
             q == [queues EXCEPT !.inputJpegQ = Tail(queues.inputJpegQ)]
             jobs == queues.ongoingJpegQ
             kept == queues'.ongoingJpegQ
  <2>1. queues.inputJpegQ # <<>> /\ queues' = [q EXCEPT !.ongoingJpegQ = Append(q.ongoingJpegQ, job)]
    BY <1>2, <1>3, <1>6 DEF Queues
  <2>2. /\ q \in Queues /\ job \in Jobs
        /\ \A f : InQs(queues, f) = InQs(q, f) + OneIf(job.src = f)
    BY <1>2, <2>1, TakenFromInputJpegQ
  <2>3. /\ q.ongoingJpegQ = jobs /\ q.ongoingPPQ = queues.ongoingPPQ
        /\ q.inputJpegQ = Tail(queues.inputJpegQ) /\ queues.inputJpegQ \in Seq(Jobs)
        /\ jobs \in Seq(Jobs)
    BY <1>2 DEF Queues
  <2>4. /\ job \in Range(queues.inputJpegQ)
        /\ Range(Tail(queues.inputJpegQ)) \subseteq Range(queues.inputJpegQ)
    BY <2>1, <2>3, RangeTaken
  <2> HIDE DEF q, job
  <2>5. queues' \in Queues /\ \A f : InQs(queues', f) = InQs(q, f) + OneIf(job.src = f)
    BY <2>1, <2>2, AddedToOngoingJpegQ
  <2>6. /\ kept = Append(jobs, job) /\ queues'.ongoingPPQ = queues.ongoingPPQ
        /\ queues'.inputJpegQ = Tail(queues.inputJpegQ)
    BY <2>1, <2>2, <2>3 DEF Queues
  <2>7. /\ kept \in Seq(Jobs) /\ Len(kept) = Len(jobs) + 1 /\ Len(jobs) \in Nat
        /\ kept[Len(kept)] = job /\ \A i \in DOMAIN jobs : i \in DOMAIN kept /\ kept[i] = jobs[i]
    <3>1. DOMAIN jobs = 1 .. Len(jobs) /\ Len(jobs) \in Nat
      BY <2>3, LenProperties
    <3>2. /\ Append(jobs, job) \in Seq(Jobs) /\ Len(Append(jobs, job)) = Len(jobs) + 1
          /\ Append(jobs, job)[Len(jobs) + 1] = job
          /\ \A i \in 1 .. Len(jobs) : Append(jobs, job)[i] = jobs[i]
      BY <2>2, <2>3, AppendProperties
    <3> HIDE DEF jobs, kept
    <3>3. DOMAIN kept = 1 .. Len(kept)
      BY <2>6, <3>2, LenProperties
    <3>4. DOMAIN kept = 1 .. Len(jobs) + 1
      BY <2>6, <3>2, <3>3
    <3> QED  BY <2>6, <3>1, <3>2, <3>4
  <2>8. (reproc.paired => job.made = job.src) /\ job.id = 0
    BY <2>4 DEF IInv, MadeOK
  <2>9. TypeOK'
    BY <1>1, <1>3, <2>5 DEF IInv, TypeOK
  <2>10. HeldOnce'
    <3>1. ASSUME NEW f PROVE InQs(queues', f) = InQs(queues, f)
      BY <2>2, <2>5
    <3> QED  BY <1>1, <1>2, <1>3, <1>6, <3>1, HeldFrom DEF HandOf
  <2>11. MadeOK'
    <3>1. Range(Append(jobs, job)) = Range(jobs) \cup {job}
      BY <2>2, <2>3, RangeAppended
    <3> QED  BY <1>1, <2>4, <2>6, <2>8, <3>1 DEF IInv, MadeOK
  <2>12. JobInHand'
    <3>1. kept # <<>> /\ kept[Len(kept)].id = 0
      BY <2>7, <2>8, EmptySeq
    <3> QED  BY <1>1, <1>6, <3>1 DEF IInv, JobInHand, NoNewEnd
  <2>13. (NumbersLast => Numbered)'
    <3>1. ASSUME NEW i \in DOMAIN jobs
          PROVE  \E k \in DOMAIN kept : Number(k)' = Number(i) /\ kept[k].src = jobs[i].src
      <4>1. Number(i) = jobs[i].id
        BY <1>2 DEF Number
      <4>2. PICK k \in DOMAIN kept : k = i /\ kept[k] = jobs[i]
        BY <2>7
      <4>3. Number(k)' = kept[k].id
        BY <1>6 DEF Number
      <4> QED  BY <4>1, <4>2, <4>3
    <3>2. (NumbersLast => Numbered) /\ NoNewEnd
      BY <1>1, NoEvent DEF IInv
    <3> QED  BY <1>1, <3>1, <3>2, NumbersKept
  <2>14. OneAtATime' /\ Reprocessed'
    BY <1>1, <1>2, <1>6, <2>6, SameReproc DEF IInv, OneAtATime
  <2> QED  BY <1>4, <2>9, <2>10, <2>11, <2>12, <2>13, <2>14 DEF IInv
<1> QED  BY <1>3, <1>5, <1>6

\* The places of a queue after one more.
LEMMA PlacesAppended ==
    ASSUME NEW S, NEW s \in Seq(S), NEW e \in S
    PROVE  /\ Append(s, e) \in Seq(S) /\ Len(Append(s, e)) = Len(s) + 1 /\ Len(s) \in Nat
           /\ DOMAIN s = 1 .. Len(s) /\ DOMAIN Append(s, e) = 1 .. Len(s) + 1
           /\ \A i \in DOMAIN s : Append(s, e)[i] = s[i]
           /\ Append(s, e)[Len(s) + 1] = e
<1> DEFINE t == Append(s, e)
<1>1. DOMAIN s = 1 .. Len(s) /\ Len(s) \in Nat
  BY LenProperties
<1>2. /\ t \in Seq(S) /\ Len(t) = Len(s) + 1 /\ t[Len(s) + 1] = e
      /\ \A i \in 1 .. Len(s) : t[i] = s[i]
  BY AppendProperties
<1> HIDE DEF t
<1>3. DOMAIN t = 1 .. Len(t)
  BY <1>2, LenProperties
<1> QED  BY <1>1, <1>2, <1>3 DEF t

\* The number of a new job is not used yet.
LEMMA NextIdIsNew ==
    ASSUME encoder \in Encoders, NumbersLast'
    PROVE  encoder'.hist = encoder.hist + 1 => NumbersLast /\ NextId = 256 + encoder.hist
<1> SUFFICES ASSUME encoder'.hist = encoder.hist + 1
             PROVE  NumbersLast /\ NextId = 256 + encoder.hist
  OBVIOUS
<1> DEFINE h == encoder.hist
<1>1. h \in Nat /\ h + 1 <= 256
  BY DEF Encoders, NumbersLast
<1>2. NextId = IF (h % 10000) % 512 < 256 THEN (h % 10000) + 256 ELSE h % 10000
  BY DEF NextId, JOB_HIST_MAX
<1>3. (h <= 256) => NumbersLast
  BY DEF NumbersLast
<1> HIDE DEF h
<1>4. h % 10000 = h /\ h % 512 = h
  BY <1>1
<1> QED  BY <1>1, <1>2, <1>3, <1>4 DEF h

LEMMA JobStarted ==
    ASSUME IInv, proc.pc = "encode", NEW last, last = Last(queues.ongoingJpegQ),
           encoder' = [encoder EXCEPT !.session = TRUE, !.hist = @ + 1,
                         !.todo = Append(@, [id |-> NextId, src |-> last.src])],
           proc' = [proc EXCEPT !.pc = "store", !.job = <<[last EXCEPT !.id = NextId]>>],
           UNCHANGED <<use, m_state, sm, pictures, asked, evt_queue, channel, sync_sem, reproc>>,
           UNCHANGED <<failed, home, queues, notifier>>
    PROVE  IInv'
<1> DEFINE jobs == queues.ongoingJpegQ
           new == [id |-> NextId, src |-> last.src]
           hand == [last EXCEPT !.id = NextId]
<1>1. /\ jobs \in Seq(Jobs) /\ proc \in Procs /\ encoder \in Encoders /\ evt_queue \in Seq(Events)
      /\ notifier \in Notifiers /\ queues \in Queues /\ home \in [Frames -> Nat]
  BY DEF IInv, TypeOK, Queues
<1>2. jobs # <<>> /\ jobs[Len(jobs)].id = 0
  BY DEF IInv, JobInHand
<1>3. last \in Jobs /\ last = jobs[Len(jobs)] /\ Len(jobs) \in Nat \ {0}
  BY <1>1, <1>2, FrontAndLast
<1>4. NextId \in Nat \ {0}
  <2> DEFINE h == encoder.hist % 10000
  <2>1. h \in Nat
    BY <1>1 DEF Encoders
  <2>2. NextId = IF h % 512 < 256 THEN h + 256 ELSE h
    BY DEF NextId, JOB_HIST_MAX
  <2> HIDE DEF h
  <2>3. h = 0 => h % 512 < 256
    OBVIOUS
  <2> QED  BY <2>1, <2>2, <2>3
<1>5. /\ new \in EncoderJobs /\ new.id = NextId /\ new.src = last.src
      /\ hand \in Jobs /\ hand.id = NextId /\ hand = [jobs[Len(jobs)] EXCEPT !.id = hand.id]
  BY <1>3, <1>4 DEF Jobs, EncoderJobs
<1> HIDE DEF new, hand
<1>6. /\ encoder.todo \in Seq(EncoderJobs) /\ encoder.ongoing \in Seq(EncoderJobs)
      /\ encoder.hist \in Nat
  BY <1>1 DEF Encoders
<1>7. /\ Append(encoder.todo, new) \in Seq(EncoderJobs)
      /\ Len(Append(encoder.todo, new)) = Len(encoder.todo) + 1 /\ Len(encoder.todo) \in Nat
      /\ DOMAIN encoder.todo = 1 .. Len(encoder.todo)
      /\ DOMAIN Append(encoder.todo, new) = 1 .. Len(encoder.todo) + 1
      /\ \A i \in DOMAIN encoder.todo : Append(encoder.todo, new)[i] = encoder.todo[i]
      /\ Append(encoder.todo, new)[Len(encoder.todo) + 1] = new
  BY <1>5, <1>6, PlacesAppended
<1>8. /\ encoder' = [encoder EXCEPT !.session = TRUE, !.hist = encoder.hist + 1,
                       !.todo = Append(encoder.todo, new)]
      /\ proc' = [proc EXCEPT !.pc = "store", !.job = <<hand>>]
  BY DEF new, hand
<1>9. /\ encoder' \in Encoders /\ encoder'.hist = encoder.hist + 1
      /\ encoder'.todo = Append(encoder.todo, new) /\ encoder'.ongoing = encoder.ongoing
  <2> DEFINE todo == Append(encoder.todo, new)
             hist == encoder.hist + 1
  <2>1. todo \in Seq(EncoderJobs) /\ hist \in Nat
    BY <1>6, <1>7
  <2>2. encoder' = [encoder EXCEPT !.session = TRUE, !.hist = hist, !.todo = todo]
    BY <1>8
  <2> HIDE DEF todo, hist
  <2>3. encoder' \in Encoders /\ encoder'.hist = hist /\ encoder'.todo = todo
        /\ encoder'.ongoing = encoder.ongoing
    BY <1>1, <2>1, <2>2 DEF Encoders
  <2> QED  BY <2>3 DEF todo, hist
<1>10. /\ proc' \in Procs /\ proc'.pc = "store" /\ proc'.job = <<hand>> /\ proc'.cmds = proc.cmds
  <2>1. <<hand>> \in Seq(Jobs)
    BY <1>5
  <2> QED  BY <1>1, <1>8, <2>1 DEF Procs
<1>11. TypeOK'
  BY <1>1, <1>9, <1>10 DEF IInv, TypeOK
<1>12. HeldOnce'
  BY <1>10, HeldFrom DEF IInv, HandOf
<1>13. OneAtATime' /\ OneStop' /\ Reprocessed' /\ MadeOK'
  <2>1. proc'.pc \in Stopping <=> proc.pc \in Stopping
    BY <1>10 DEF Stopping
  <2> QED  BY <1>9, <1>10, <2>1, SameStop, SameReproc, SameMade DEF IInv, OneAtATime
<1>14. JobInHand'
  <2>1. proc'.job[1] = hand
    BY <1>10
  <2>2. proc'.job[1].id # 0 /\ proc'.job = <<[jobs[Len(jobs)] EXCEPT !.id = proc'.job[1].id]>>
    BY <1>4, <1>5, <1>10, <2>1
  <2> QED  BY <1>2, <1>10, <2>2 DEF IInv, JobInHand
<1>15. ASSUME NumbersLast' PROVE Numbered'
  <2>1. NumbersLast /\ NextId = 256 + encoder.hist
    BY <1>1, <1>9, <1>15, NextIdIsNew
  <2>2. Numbered
    BY <2>1 DEF IInv
  <2>3. \A job \in Range(encoder.todo) \cup Range(encoder.ongoing) : job.id \in 256 .. 255 + encoder.hist
    BY <2>2 DEF Numbered
  <2>4. Range(encoder'.todo) = Range(encoder.todo) \cup {new}
    BY <1>5, <1>6, <1>9, RangeAppended
  <2>5. \A i \in DOMAIN evt_queue : evt_queue[i].type = "jpeg" => evt_queue[i].id \in Nat
    <3>1. ASSUME NEW i \in DOMAIN evt_queue, evt_queue[i].type = "jpeg" PROVE evt_queue[i].id \in Nat
      <4>1. evt_queue[i] \in Events
        BY <1>1, ElementOfSeq, LenProperties
      <4> QED  BY <3>1, <4>1 DEF Events
    <3> QED  BY <3>1
  <2>6. ASSUME NEW job \in Range(encoder'.todo) \cup Range(encoder'.ongoing)
        PROVE  /\ job.id \in 256 .. 256 + encoder.hist
               /\ \E i \in DOMAIN jobs : Number(i)' = job.id /\ jobs[i].src = job.src
               /\ \A i \in DOMAIN evt_queue : evt_queue[i].type = "jpeg" => evt_queue[i].id # job.id
    <3>1. CASE job = new
      <4>1. job.id = 256 + encoder.hist
        BY <1>5, <2>1, <3>1
      <4>2. PICK i \in DOMAIN jobs : i = Len(jobs) /\ jobs[i] = last
        BY <1>1, <1>3, LenProperties
      <4>3. Number(i)' = hand.id
        BY <1>10, <4>2 DEF Number
      <4>4. \A k \in DOMAIN evt_queue : evt_queue[k].type = "jpeg" => evt_queue[k].id # job.id
        BY <1>6, <2>2, <2>5, <4>1 DEF Numbered
      <4> QED  BY <1>5, <1>6, <3>1, <4>1, <4>2, <4>3, <4>4
    <3>2. CASE job \in Range(encoder.todo) \cup Range(encoder.ongoing)
      <4>1. job.id \in 256 .. 255 + encoder.hist
        BY <2>3, <3>2
      <4>2. PICK i \in DOMAIN jobs : Number(i) = job.id /\ jobs[i].src = job.src
        BY <2>2, <3>2 DEF Numbered
      <4>3. Number(i) = jobs[i].id
        BY DEF Number
      <4>4. i # Len(jobs)
        BY <1>2, <4>1, <4>2, <4>3
      <4>5. Number(i)' = jobs[i].id
        BY <4>4 DEF Number
      <4>6. \A k \in DOMAIN evt_queue : evt_queue[k].type = "jpeg" => evt_queue[k].id # job.id
        BY <2>2, <3>2 DEF Numbered
      <4> QED  BY <1>6, <4>1, <4>2, <4>3, <4>5, <4>6
    <3> QED  BY <1>9, <2>4, <3>1, <3>2
  <2>7. \A i, j \in DOMAIN encoder'.todo : encoder'.todo[i].id = encoder'.todo[j].id => i = j
    <3> DEFINE n == Len(encoder.todo)
               t == encoder.todo
               u == encoder'.todo
    <3>1. /\ DOMAIN u = 1 .. n + 1 /\ DOMAIN t = 1 .. n /\ n \in Nat
          /\ u[n + 1].id = encoder.hist + 256 /\ \A i \in 1 .. n : u[i] = t[i]
      <4>1. u[n + 1] = new
        BY <1>7, <1>9
      <4>2. new.id = encoder.hist + 256
        BY <1>5, <1>6, <2>1
      <4>3. DOMAIN u = 1 .. n + 1 /\ DOMAIN t = 1 .. n /\ n \in Nat
        BY <1>7, <1>9
      <4>4. \A i \in 1 .. n : u[i] = t[i]
        BY <1>7, <1>9
      <4> QED  BY <4>1, <4>2, <4>3, <4>4
    <3>2. \A i \in 1 .. n : t[i].id \in 256 .. 255 + encoder.hist
      BY <1>7, <2>3 DEF Range
    <3>3. \A i, j \in 1 .. n : t[i].id = t[j].id => i = j
      BY <1>7, <2>2 DEF Numbered
    <3>4. \A i \in 1 .. n : u[i].id # encoder.hist + 256
      BY <1>6, <3>1, <3>2
    <3> HIDE DEF n, t, u
    <3>5. ASSUME NEW i \in 1 .. n + 1, NEW j \in 1 .. n + 1, u[i].id = u[j].id PROVE i = j
      <4>1. CASE i = n + 1
        BY <3>1, <3>4, <3>5, <4>1
      <4>2. CASE j = n + 1
        BY <3>1, <3>4, <3>5, <4>2
      <4>3. CASE i \in 1 .. n /\ j \in 1 .. n
        BY <3>1, <3>3, <3>5, <4>3
      <4> QED  BY <3>1, <4>1, <4>2, <4>3
    <3> QED  BY <3>1, <3>5 DEF u
  <2>8. \A i \in DOMAIN encoder'.todo : \A job \in Range(encoder'.ongoing) : encoder'.todo[i].id # job.id
    <3> SUFFICES ASSUME NEW i \in DOMAIN encoder'.todo, NEW job \in Range(encoder.ongoing)
                 PROVE  encoder'.todo[i].id # job.id
      BY <1>9
    <3>1. job.id \in 256 .. 255 + encoder.hist
      BY <2>3
    <3>2. CASE i = Len(encoder.todo) + 1
      BY <1>5, <1>6, <1>7, <1>9, <2>1, <3>1, <3>2
    <3>3. CASE i \in DOMAIN encoder.todo
      BY <1>7, <1>9, <2>2, <3>3 DEF Numbered
    <3> QED  BY <1>7, <1>9, <3>2, <3>3
  <2>9. \A i \in DOMAIN evt_queue : evt_queue[i].type = "jpeg" => evt_queue[i].id <= 256 + encoder.hist
    <3> SUFFICES ASSUME NEW i \in DOMAIN evt_queue, evt_queue[i].type = "jpeg"
                 PROVE  evt_queue[i].id <= 256 + encoder.hist
      OBVIOUS
    <3>1. evt_queue[i].id <= 255 + encoder.hist
      BY <2>2 DEF Numbered
    <3>2. evt_queue[i].id \in Nat
      BY <2>5
    <3> QED  BY <1>6, <3>1, <3>2
  <2>10. 255 + encoder'.hist = 256 + encoder.hist
    BY <1>6, <1>9
  <2>11. queues' = queues /\ evt_queue' = evt_queue
    OBVIOUS
  <2> QED  BY <2>6, <2>7, <2>8, <2>9, <2>10, <2>11 DEF Numbered
<1> QED  BY <1>11, <1>12, <1>13, <1>14, <1>15 DEF IInv

\* A frame that goes from a queue back to the channel.
LEMMA SomeReturned ==
    ASSUME TypeOK, HeldOnce, NEW s \in Seq(Frames), GiveBack(s), queues' \in Queues,
           \A g : InQs(queues, g) = InQs(queues', g) + Count(s, g),
           \A g \in Frames :
             /\ Count(channel'.cb, g) = Count(channel.cb, g)
             /\ Count(HandOf(proc'), g) = Count(HandOf(proc), g)
             /\ NotifierHas(notifier', g) = NotifierHas(notifier, g)
    PROVE  home' \in [Frames -> Nat] /\ HeldOnce'
<1>1. /\ home' \in [Frames -> Nat]
      /\ \A g \in Frames : home'[g] = home[g] + Count(s, g) /\ Count(s, g) \in Nat
  BY Returned
<1>2. ASSUME NEW g \in Frames
      PROVE  home'[g] \in Nat /\ home'[g] + InQs(queues', g) = home[g] + InQs(queues, g)
  <2> DEFINE h == home[g]
             a == InQs(queues', g)
             b == InQs(queues, g)
             o == Count(s, g)
  <2>1. h \in Nat /\ a \in Nat /\ o \in Nat
    BY <1>1, PlacesAreNat, QueueCounts
  <2>2. home'[g] = h + o /\ b = a + o
    BY <1>1
  <2> HIDE DEF h, a, b, o
  <2>3. (h + o) + a = h + b /\ h + o \in Nat
    BY <2>1, <2>2
  <2> QED  BY <2>2, <2>3 DEF h, a, b
<1> QED  BY <1>1, <1>2, HeldMoved

LEMMA OneReturned ==
    ASSUME TypeOK, HeldOnce, NEW f \in Frames, GiveBack(<<f>>), queues' \in Queues,
           \A g : InQs(queues, g) = InQs(queues', g) + OneIf(f = g),
           \A g \in Frames :
             /\ Count(channel'.cb, g) = Count(channel.cb, g)
             /\ Count(HandOf(proc'), g) = Count(HandOf(proc), g)
             /\ NotifierHas(notifier', g) = NotifierHas(notifier, g)
    PROVE  home' \in [Frames -> Nat] /\ HeldOnce'
<1> DEFINE s == <<f>>
<1>1. s \in Seq(Frames) /\ GiveBack(s) /\ \A g : Count(s, g) = OneIf(f = g)
  BY CountOne
<1> HIDE DEF s
<1> QED  BY <1>1, SomeReturned

LEMMA JobRefused ==
    ASSUME IInv, proc.pc = "encode",
           queues' = [queues EXCEPT !.ongoingJpegQ = Front(queues.ongoingJpegQ)],
           GiveBack(<<Last(queues.ongoingJpegQ).src>>),
           proc' = [proc EXCEPT !.pc = "raw"], failed' = TRUE,
           UNCHANGED <<use, m_state, sm, pictures, asked, evt_queue, channel, sync_sem, reproc>>,
           UNCHANGED <<encoder, notifier>>
    PROVE  IInv'
<1> DEFINE jobs == queues.ongoingJpegQ
           kept == queues'.ongoingJpegQ
           f == Last(queues.ongoingJpegQ).src
<1>1. /\ TypeOK /\ HeldOnce /\ jobs \in Seq(Jobs) /\ proc \in Procs /\ queues \in Queues
  BY DEF IInv, TypeOK, Queues
<1>2. jobs # <<>> /\ jobs[Len(jobs)].id = 0
  BY DEF IInv, JobInHand
<1>3. /\ queues' \in Queues /\ f \in Frames
      /\ \A g : InQs(queues, g) = InQs(queues', g) + OneIf(f = g)
  BY <1>1, <1>2, DroppedFromOngoingJpegQ
<1>4. /\ kept = Front(jobs) /\ queues'.ongoingPPQ = queues.ongoingPPQ
      /\ queues'.inputJpegQ = queues.inputJpegQ
  BY <1>1 DEF Queues
<1>5. /\ kept \in Seq(Jobs) /\ Len(jobs) \in Nat \ {0} /\ Len(kept) = Len(jobs) - 1
      /\ \A i \in 1 .. Len(jobs) - 1 : kept[i] = jobs[i]
      /\ jobs = Append(kept, Last(jobs)) /\ Last(jobs) \in Jobs
  <2> DEFINE last == Last(jobs)
             front == Front(jobs)
  <2>1. /\ front \in Seq(Jobs) /\ Len(jobs) \in Nat \ {0} /\ Len(front) = Len(jobs) - 1
        /\ \A i \in 1 .. Len(jobs) - 1 : front[i] = jobs[i]
        /\ jobs = Append(front, last) /\ last \in Jobs
    BY <1>1, <1>2, FrontAndLast
  <2>2. kept = front
    BY <1>4
  <2> HIDE DEF last, front, jobs, kept
  <2>3. /\ kept \in Seq(Jobs) /\ Len(jobs) \in Nat \ {0} /\ Len(kept) = Len(jobs) - 1
        /\ \A i \in 1 .. Len(jobs) - 1 : kept[i] = jobs[i]
        /\ jobs = Append(kept, last) /\ last \in Jobs
    BY <2>1, <2>2
  <2> QED  BY <2>3 DEF last
<1>6. proc' \in Procs /\ proc'.pc = "raw" /\ proc'.job = proc.job /\ proc'.cmds = proc.cmds
  BY <1>1 DEF Procs
<1>7. home' \in [Frames -> Nat] /\ HeldOnce'
  <2>1. \A g \in Frames :
             /\ Count(channel'.cb, g) = Count(channel.cb, g)
             /\ Count(HandOf(proc'), g) = Count(HandOf(proc), g)
             /\ NotifierHas(notifier', g) = NotifierHas(notifier, g)
    BY <1>6 DEF HandOf
  <2> HIDE DEF f
  <2>2. GiveBack(<<f>>)
    BY DEF f
  <2> QED  BY <1>1, <1>3, <2>1, <2>2, OneReturned
<1>8. TypeOK'
  <2>1. failed' \in BOOLEAN
    OBVIOUS
  <2> QED  BY <1>3, <1>6, <1>7, <2>1 DEF IInv, TypeOK
<1>9. MadeOK'
  <2> DEFINE last == Last(jobs)
  <2>1. Range(jobs) = Range(kept) \cup {last}
    <3> HIDE DEF jobs, kept, last
    <3>1. kept \in Seq(Jobs) /\ last \in Jobs /\ jobs = Append(kept, last)
      BY <1>5 DEF last
    <3> QED  BY <3>1, RangeAppended
  <2> QED  BY <1>4, <2>1 DEF IInv, MadeOK
<1>10. (NumbersLast => Numbered)'
  <2>1. ASSUME NEW i \in DOMAIN jobs, Number(i) # 0
        PROVE  \E k \in DOMAIN kept : Number(k)' = Number(i) /\ kept[k].src = jobs[i].src
    <3>1. Number(i) = jobs[i].id
      BY DEF Number
    <3>2. i # Len(jobs) /\ DOMAIN jobs = 1 .. Len(jobs) /\ DOMAIN kept = 1 .. Len(kept)
      BY <1>1, <1>2, <1>5, <2>1, <3>1, LenProperties
    <3>3. PICK k \in DOMAIN kept : k = i /\ kept[k] = jobs[i]
      <4> HIDE DEF jobs, kept
      <4> QED  BY <1>5, <3>2
    <3>4. Number(k)' = kept[k].id
      BY <1>6 DEF Number
    <3> QED  BY <3>1, <3>3, <3>4
  <2>2. (NumbersLast => Numbered) /\ NoNewEnd
    BY NoEvent DEF IInv
  <2> QED  BY <2>1, <2>2, NumbersKept
<1>11. JobInHand'
  BY <1>6 DEF IInv, JobInHand
<1>12. OneAtATime' /\ OneStop' /\ Reprocessed'
  <2>1. proc'.pc \in Stopping <=> proc.pc \in Stopping
    BY <1>6 DEF Stopping
  <2> QED  BY <1>4, <1>6, <2>1, SameStop, SameReproc DEF IInv, OneAtATime
<1> QED  BY <1>7, <1>8, <1>9, <1>10, <1>11, <1>12 DEF IInv

LEMMA EncodeDataStep ==
    ASSUME IInv, EncodeData
    PROVE  IInv'
<1> DEFINE job == Last(queues.ongoingJpegQ)
<1>1. /\ proc.pc = "encode"
      /\ UNCHANGED <<use, m_state, sm, pictures, asked, evt_queue, channel, sync_sem, reproc>>
      /\ UNCHANGED notifier
      /\ \/ /\ encoder' = [encoder EXCEPT !.session = TRUE, !.hist = @ + 1,
                             !.todo = Append(@, [id |-> NextId, src |-> job.src])]
            /\ proc' = [proc EXCEPT !.pc = "store", !.job = <<[job EXCEPT !.id = NextId]>>]
            /\ UNCHANGED <<failed, home, queues>>
         \/ /\ queues' = [queues EXCEPT !.ongoingJpegQ = Front(queues.ongoingJpegQ)]
            /\ GiveBack(<<job.src>>) /\ failed' = TRUE
            /\ proc' = [proc EXCEPT !.pc = "raw"] /\ UNCHANGED encoder
         \/ proc' = [proc EXCEPT !.pc = "raw"] /\ UNCHANGED <<queues, home, failed, encoder>>
  BY DEF EncodeData, procOnly, apiVars, DropLast, GoesTo
<1>2. CASE proc'.pc = "store" /\ encoder' = [encoder EXCEPT !.session = TRUE, !.hist = @ + 1,
                                   !.todo = Append(@, [id |-> NextId, src |-> job.src])]
           /\ proc' = [proc EXCEPT !.pc = "store", !.job = <<[job EXCEPT !.id = NextId]>>]
           /\ UNCHANGED <<failed, home, queues>>
  <2> HIDE DEF job
  <2>1. job = Last(queues.ongoingJpegQ)
    BY DEF job
  <2> QED  BY <1>1, <1>2, <2>1, JobStarted
<1>3. CASE queues' = [queues EXCEPT !.ongoingJpegQ = Front(queues.ongoingJpegQ)]
           /\ GiveBack(<<job.src>>) /\ failed' = TRUE
           /\ proc' = [proc EXCEPT !.pc = "raw"] /\ UNCHANGED encoder
  BY <1>1, <1>3, JobRefused
<1>4. proc \in Procs
  BY DEF IInv, TypeOK
<1>5. CASE proc' = [proc EXCEPT !.pc = "raw"] /\ UNCHANGED <<queues, home, failed, encoder>>
  <2>1. proc' \in Procs /\ proc'.pc = "raw" /\ proc'.job = proc.job /\ proc'.cmds = proc.cmds
    BY <1>4, <1>5 DEF Procs
  <2>2. ~ (proc'.pc \in Stopping) /\ ~ (proc.pc \in Stopping)
    BY <1>1, <2>1 DEF Stopping
  <2>3. TypeOK' /\ OneAtATime'
    BY <1>1, <1>5, <2>1 DEF IInv, TypeOK, OneAtATime
  <2>4. HeldOnce'
    BY <1>1, <1>5, <2>1, HeldFrom DEF IInv, HandOf
  <2>5. OneStop' /\ Reprocessed' /\ JobInHand' /\ MadeOK' /\ (NumbersLast => Numbered)'
    BY <1>1, <1>5, <2>1, <2>2, NoEvent, SameStop, SameReproc, SameJobs, SameMade, SameNumbers DEF IInv
  <2> QED  BY <2>3, <2>4, <2>5 DEF IInv
<1> HIDE DEF job
<1> QED  BY <1>1, <1>2, <1>3, <1>4, <1>5 DEF Procs

LEMMA StoreJobIdStep ==
    ASSUME IInv, StoreJobId
    PROVE  IInv'
<1> DEFINE jobs == queues.ongoingJpegQ
           kept == queues'.ongoingJpegQ
           front == Front(queues.ongoingJpegQ)
           last == Last(queues.ongoingJpegQ)
           hand == proc.job[1]
           q == [queues EXCEPT !.ongoingJpegQ = Front(queues.ongoingJpegQ)]
<1>1. /\ proc.pc = "store" /\ queues' = [queues EXCEPT !.ongoingJpegQ = front \o proc.job]
      /\ proc' = [proc EXCEPT !.pc = "raw", !.job = <<>>]
      /\ UNCHANGED <<use, m_state, sm, pictures, asked, evt_queue, channel, sync_sem, reproc>>
      /\ UNCHANGED <<failed, home, encoder, notifier>>
  BY DEF StoreJobId, procOnly, apiVars
<1>2. /\ TypeOK /\ HeldOnce /\ jobs \in Seq(Jobs) /\ proc \in Procs /\ queues \in Queues
      /\ proc.job \in Seq(Jobs)
  BY DEF IInv, TypeOK, Queues, Procs
<1>3. /\ jobs # <<>> /\ jobs[Len(jobs)].id = 0
      /\ hand.id # 0 /\ proc.job = <<[jobs[Len(jobs)] EXCEPT !.id = hand.id]>>
  BY <1>1 DEF IInv, JobInHand
<1>4. /\ front \in Seq(Jobs) /\ Len(jobs) \in Nat \ {0} /\ Len(front) = Len(jobs) - 1
      /\ \A i \in 1 .. Len(jobs) - 1 : front[i] = jobs[i]
      /\ jobs = Append(front, last) /\ last \in Jobs /\ last = jobs[Len(jobs)]
  BY <1>2, <1>3, FrontAndLast
<1>5. /\ hand \in Jobs /\ proc.job = <<hand>> /\ hand.src = last.src /\ hand.made = last.made
      /\ hand = [last EXCEPT !.id = hand.id]
  <2>1. hand \in Jobs
    <3>1. Len(proc.job) = 1 /\ proc.job \in Seq(Jobs)
      BY <1>2, <1>3
    <3> QED  BY <3>1, ElementOfSeq
  <2>2. hand = [jobs[Len(jobs)] EXCEPT !.id = hand.id]
    BY <1>3
  <2>3. hand.src = last.src /\ hand.made = last.made
    <3> HIDE DEF hand, last, jobs
    <3>1. hand = [last EXCEPT !.id = hand.id]
      BY <1>4, <2>2
    <3> QED  BY <1>4, <3>1 DEF Jobs
  <2>4. proc.job = <<hand>>
    BY <1>3, <2>2
  <2> HIDE DEF hand, last, jobs
  <2> QED  BY <1>4, <2>1, <2>2, <2>3, <2>4
<1>6. /\ q \in Queues /\ q.ongoingJpegQ = front
      /\ \A g : InQs(queues, g) = InQs(q, g) + OneIf(last.src = g)
  <2>1. q \in Queues /\ \A g : InQs(queues, g) = InQs(q, g) + OneIf(last.src = g)
    BY <1>2, <1>3, DroppedFromOngoingJpegQ
  <2> QED  BY <1>2, <2>1 DEF Queues
<1>7. queues' = [q EXCEPT !.ongoingJpegQ = Append(q.ongoingJpegQ, hand)] /\ kept = Append(front, hand)
  <2>1. front \o proc.job = Append(front, hand)
    <3> HIDE DEF front, hand
    <3>1. front \o <<hand>> = Append(front, hand)
      BY <1>4, <1>5, AppendIsConcat
    <3> QED  BY <1>5, <3>1
  <2>2. queues' = [queues EXCEPT !.ongoingJpegQ = Append(front, hand)]
    BY <1>1, <2>1
  <2>3. kept = Append(front, hand)
    BY <1>2, <2>2 DEF Queues
  <2>4. [q EXCEPT !.ongoingJpegQ = Append(q.ongoingJpegQ, hand)]
          = [queues EXCEPT !.ongoingJpegQ = Append(front, hand)]
    BY <1>2, <1>6 DEF Queues
  <2> QED  BY <2>2, <2>3, <2>4
<1>8. /\ queues'.ongoingPPQ = queues.ongoingPPQ /\ queues'.inputJpegQ = queues.inputJpegQ
  BY <1>1, <1>2 DEF Queues
<1> HIDE DEF q, hand, last, front, jobs
<1>9. queues' \in Queues /\ \A g : InQs(queues', g) = InQs(q, g) + OneIf(hand.src = g)
  <2>1. q \in Queues /\ hand \in Jobs
    BY <1>5, <1>6
  <2>2. queues' = [q EXCEPT !.ongoingJpegQ = Append(q.ongoingJpegQ, hand)]
    BY <1>7
  <2> QED  BY <2>1, <2>2, AddedToOngoingJpegQ
<1>10. /\ proc' \in Procs /\ proc'.pc = "raw" /\ proc'.cmds = proc.cmds
  BY <1>1, <1>2, EmptySeq DEF Procs
<1>11. TypeOK'
  BY <1>1, <1>9, <1>10 DEF IInv, TypeOK
<1>12. HeldOnce'
  <2>1. ASSUME NEW g PROVE InQs(queues', g) = InQs(queues, g)
    BY <1>5, <1>6, <1>9
  <2> QED  BY <1>1, <1>2, <1>10, <2>1, HeldFrom DEF HandOf
<1>13. MadeOK'
  <2>1. Range(kept) = Range(front) \cup {hand} /\ Range(jobs) = Range(front) \cup {last}
    <3>1. front \in Seq(Jobs) /\ hand \in Jobs /\ last \in Jobs
      BY <1>4, <1>5
    <3>2. /\ Range(Append(front, hand)) = Range(front) \cup {hand}
          /\ Range(Append(front, last)) = Range(front) \cup {last}
      BY <3>1, RangeAppended
    <3> QED  BY <1>4, <1>7, <3>2
  <2>2. \A job \in Range(jobs) : reproc.paired => job.made = job.src
    BY DEF IInv, MadeOK, jobs
  <2> QED  BY <1>1, <1>5, <1>8, <2>1, <2>2 DEF IInv, MadeOK
<1>14. (NumbersLast => Numbered)'
  <2>1. ASSUME NEW i \in DOMAIN jobs
        PROVE  \E k \in DOMAIN kept : Number(k)' = Number(i) /\ kept[k].src = jobs[i].src
    <3>1. Number(i) = IF i = Len(jobs) THEN hand.id ELSE jobs[i].id
      BY <1>1 DEF Number, hand, jobs
    <3>2. /\ DOMAIN jobs = 1 .. Len(jobs) /\ DOMAIN kept = 1 .. Len(front) + 1
          /\ \A k \in 1 .. Len(front) : kept[k] = front[k]
          /\ kept[Len(front) + 1] = hand
      <4>1. DOMAIN jobs = 1 .. Len(jobs)
        BY <1>2, LenProperties
      <4>2. /\ DOMAIN Append(front, hand) = 1 .. Len(front) + 1
            /\ DOMAIN front = 1 .. Len(front)
            /\ \A k \in DOMAIN front : Append(front, hand)[k] = front[k]
            /\ Append(front, hand)[Len(front) + 1] = hand
        BY <1>4, <1>5, PlacesAppended
      <4> HIDE DEF kept
      <4> QED  BY <1>7, <4>1, <4>2
    <3>3. PICK k \in DOMAIN kept : k = i /\ kept[k] = IF i = Len(jobs) THEN hand ELSE jobs[i]
      <4> HIDE DEF kept
      <4> QED  BY <1>4, <3>2
    <3>4. Number(k)' = kept[k].id
      BY <1>10 DEF Number
    <3> QED  BY <1>4, <1>5, <3>1, <3>3, <3>4
  <2>2. (NumbersLast => Numbered) /\ NoNewEnd
    BY <1>1, NoEvent DEF IInv
  <2> QED  BY <1>1, <2>1, <2>2, NumbersKept DEF jobs
<1>15. JobInHand'
  BY <1>1, <1>10 DEF IInv, JobInHand
<1>16. OneAtATime' /\ OneStop' /\ Reprocessed'
  <2>1. proc'.pc \in Stopping <=> proc.pc \in Stopping
    BY <1>1, <1>10 DEF Stopping
  <2> QED  BY <1>1, <1>8, <1>10, <2>1, SameStop, SameReproc DEF IInv, OneAtATime
<1> QED  BY <1>11, <1>12, <1>13, <1>14, <1>15, <1>16 DEF IInv

\* The thread goes on to its next queue.
LEMMA GoesOn ==
    ASSUME IInv, proc.pc \in {"raw", "pp", "reprocess"}, NEW pc \in {"pp", "reprocess", "idle"},
           GoesTo(pc), reproc'.on = reproc.on, reproc'.paired = reproc.paired,
           UNCHANGED <<m_state, sm, evt_queue, channel, sync_sem, encoder>>,
           queues'.ongoingJpegQ = queues.ongoingJpegQ, queues'.inputJpegQ = queues.inputJpegQ
    PROVE  /\ proc' \in Procs /\ proc'.pc = pc /\ OneStop' /\ JobInHand' /\ MadeOK'
           /\ (NumbersLast => Numbered)'
           /\ \A f : /\ Count(channel'.cb, f) = Count(channel.cb, f)
                     /\ Count(HandOf(proc'), f) = Count(HandOf(proc), f)
<1>1. proc \in Procs /\ proc' = [proc EXCEPT !.pc = pc]
  BY DEF IInv, TypeOK, GoesTo
<1>2. proc' \in Procs /\ proc'.pc = pc /\ proc'.job = proc.job /\ proc'.cmds = proc.cmds
  BY <1>1 DEF Procs
<1>3. ~ (proc'.pc \in Stopping) /\ ~ (proc.pc \in Stopping)
  BY <1>2 DEF Stopping
<1>4. OneStop'
  BY <1>2, <1>3 DEF IInv, OneStop
<1>5. JobInHand' /\ MadeOK' /\ (NumbersLast => Numbered)'
  BY <1>2, NoEvent, SameJobs, SameMade, SameNumbers DEF IInv
<1> QED  BY <1>2, <1>4, <1>5 DEF HandOf

LEMMA ProcRawStep ==
    ASSUME IInv, ProcRaw
    PROVE  IInv'
<1> DEFINE cb == Head(queues.inputRawQ)
<1>1. /\ proc.pc = "raw" /\ GoesTo("pp")
      /\ UNCHANGED <<use, m_state, sm, pictures, asked, evt_queue, channel, sync_sem, reproc>>
      /\ UNCHANGED encoder
      /\ \/ UNCHANGED <<queues, home, notifier, failed>>
         \/ /\ queues.inputRawQ # <<>>
            /\ queues' = [queues EXCEPT !.inputRawQ = Tail(queues.inputRawQ)]
            /\ \/ notifier' = Notified(cb) /\ UNCHANGED <<home, failed>>
               \/ GiveBack(cb) /\ failed' = TRUE /\ UNCHANGED notifier
  BY DEF ProcRaw, procOnly, apiVars
<1>2. TypeOK /\ HeldOnce /\ proc \in Procs /\ queues \in Queues /\ notifier \in Notifiers
  BY DEF IInv, TypeOK
<1>3. /\ queues'.ongoingJpegQ = queues.ongoingJpegQ /\ queues'.inputJpegQ = queues.inputJpegQ
      /\ queues'.ongoingPPQ = queues.ongoingPPQ
  BY <1>1, <1>2 DEF Queues
<1>4. /\ proc' \in Procs /\ proc'.pc = "pp" /\ OneStop' /\ JobInHand' /\ MadeOK'
      /\ (NumbersLast => Numbered)'
      /\ \A g : /\ Count(channel'.cb, g) = Count(channel.cb, g)
                /\ Count(HandOf(proc'), g) = Count(HandOf(proc), g)
  BY <1>1, <1>3, GoesOn
<1>5. Reprocessed'
  BY <1>1, <1>3, <1>4, SameReproc DEF IInv
<1>6. CASE UNCHANGED <<queues, home, notifier, failed>>
  <2>1. TypeOK' /\ OneAtATime'
    BY <1>1, <1>4, <1>6 DEF IInv, TypeOK, OneAtATime
  <2>2. HeldOnce'
    BY <1>2, <1>4, <1>6, HeldFrom
  <2> QED  BY <1>4, <1>5, <2>1, <2>2 DEF IInv
<1>7. CASE queues.inputRawQ # <<>> /\ queues' = [queues EXCEPT !.inputRawQ = Tail(queues.inputRawQ)]
  <2>1. /\ queues' \in Queues /\ cb \in Callbacks
        /\ \A g : InQs(queues, g) = InQs(queues', g) + OneIf(cb = <<g>>)
    BY <1>2, <1>7, TakenFromInputRawQ
  <2> HIDE DEF cb
  <2>2. CASE notifier' = Notified(cb) /\ UNCHANGED <<home, failed>>
    <3>2. /\ notifier' \in Notifiers /\ notifier'.pc = notifier.pc /\ notifier'.cb = notifier.cb
          /\ \A g : Count(notifier'.dataQ, <<g>>) = Count(notifier.dataQ, <<g>>) + OneIf(cb = <<g>>)
      BY <1>2, <2>1, <2>2, NotifiedOf
    <3>3. TypeOK' /\ OneAtATime'
      BY <1>1, <1>4, <2>1, <2>2, <3>2 DEF IInv, TypeOK, OneAtATime
    <3>4. ASSUME NEW g \in Frames
          PROVE  home'[g] + InQs(queues', g) + Count(HandOf(proc'), g) + NotifierHas(notifier', g)
                   = home[g] + InQs(queues, g) + Count(HandOf(proc), g) + NotifierHas(notifier, g)
      <4> DEFINE h == home[g]
                 a == InQs(queues, g)
                 a2 == InQs(queues', g)
                 c == Count(HandOf(proc), g)
                 d == Count(notifier.dataQ, <<g>>)
                 d2 == Count(notifier'.dataQ, <<g>>)
                 e == Count(notifier.cb, g)
                 o == OneIf(cb = <<g>>)
      <4>1. h \in Nat /\ a2 \in Nat /\ c \in Nat /\ d \in Nat /\ e \in Nat /\ o \in Nat
        BY <1>2, <2>1, PlacesAreNat, QueueCounts, NotifierCounts DEF OneIf
      <4>2. d2 = d + o
        BY <3>2
      <4>3. a = a2 + o /\ home'[g] = h /\ Count(HandOf(proc'), g) = c
        BY <1>4, <2>1, <2>2
      <4>4. NotifierHas(notifier', g) = d2 + e /\ NotifierHas(notifier, g) = d + e
        BY <3>2 DEF NotifierHas
      <4> HIDE DEF h, a, a2, c, d, d2, e, o
      <4>5. h + a2 + c + (d2 + e) = h + a + c + (d + e)
        BY <4>1, <4>2, <4>3
      <4> QED  BY <4>3, <4>4, <4>5 DEF h, a, a2, c
    <3>5. HeldOnce'
      BY <1>1, <1>2, <3>3, <3>4, HeldKept
    <3> QED  BY <1>4, <1>5, <3>3, <3>5 DEF IInv
  <2>3. CASE GiveBack(cb) /\ failed' = TRUE /\ UNCHANGED notifier
    <3>1. \A g \in Frames :
             /\ Count(channel'.cb, g) = Count(channel.cb, g)
             /\ Count(HandOf(proc'), g) = Count(HandOf(proc), g)
             /\ NotifierHas(notifier', g) = NotifierHas(notifier, g)
      BY <1>4, <2>3
    <3>2. home' \in [Frames -> Nat] /\ HeldOnce'
      <4>1. cb \in Seq(Frames) /\ \A g : Count(cb, g) = OneIf(cb = <<g>>)
        BY <2>1, CallbackFrames, CallbackCount
      <4> QED  BY <1>2, <2>1, <2>3, <3>1, <4>1, SomeReturned
    <3>3. failed' \in BOOLEAN
      BY <2>3
    <3>4. TypeOK' /\ OneAtATime'
      BY <1>1, <1>4, <2>1, <2>3, <3>2, <3>3 DEF IInv, TypeOK, OneAtATime
    <3> QED  BY <1>4, <1>5, <3>2, <3>4 DEF IInv
  <2> QED  BY <1>1, <1>7, <2>2, <2>3, <1>6 DEF cb
<1> QED  BY <1>1, <1>6, <1>7

LEMMA ProcPPStep ==
    ASSUME IInv, ProcPP
    PROVE  IInv'
<1> DEFINE f == Head(queues.inputPPQ)
           q == [queues EXCEPT !.inputPPQ = Tail(queues.inputPPQ)]
<1>1. /\ proc.pc = "pp"
      /\ UNCHANGED <<use, m_state, sm, pictures, asked, evt_queue, channel, sync_sem, reproc>>
      /\ UNCHANGED <<encoder, notifier>>
      /\ \/ GoesTo("idle") /\ UNCHANGED <<queues, home, failed>>
         \/ /\ queues.inputPPQ # <<>> /\ reproc.on
            /\ queues' = [queues EXCEPT !.inputPPQ = Tail(@), !.ongoingPPQ = Append(@, f)]
            /\ GoesTo("reprocess") /\ UNCHANGED <<home, failed>>
         \/ /\ queues.inputPPQ # <<>>
            /\ queues' = q /\ GiveBack(<<f>>) /\ failed' = TRUE /\ GoesTo("idle")
  BY DEF ProcPP, procOnly, apiVars
<1>2. TypeOK /\ HeldOnce /\ proc \in Procs /\ queues \in Queues
      /\ (reproc.paired => queues.ongoingPPQ = reproc.frames)
      /\ Len(reproc.frames) <= Len(queues.ongoingPPQ) /\ Len(reproc.frames) \in Nat
      /\ queues.ongoingPPQ \in Seq(Frames) /\ Len(queues.ongoingPPQ) \in Nat
  <2>1. /\ TypeOK /\ HeldOnce /\ proc \in Procs /\ queues \in Queues
        /\ queues.ongoingPPQ \in Seq(Frames) /\ reproc.frames \in Seq(Frames)
    BY DEF IInv, TypeOK, Queues
  <2>2. Len(reproc.frames) \in Nat /\ Len(queues.ongoingPPQ) \in Nat
    BY <2>1, LenProperties
  <2>3. /\ reproc.paired => queues.ongoingPPQ = reproc.frames
        /\ Len(reproc.frames) + 0 <= Len(queues.ongoingPPQ)
    BY <1>1 DEF IInv, Reprocessed
  <2> QED  BY <2>1, <2>2, <2>3
<1>3. CASE GoesTo("idle") /\ UNCHANGED <<queues, home, failed>>
  <2>1. /\ proc' \in Procs /\ proc'.pc = "idle" /\ OneStop' /\ JobInHand' /\ MadeOK'
        /\ (NumbersLast => Numbered)'
        /\ \A g : /\ Count(channel'.cb, g) = Count(channel.cb, g)
                  /\ Count(HandOf(proc'), g) = Count(HandOf(proc), g)
    BY <1>1, <1>3, GoesOn
  <2>2. Reprocessed'
    BY <1>1, <1>3, <2>1, SameReproc DEF IInv
  <2>3. TypeOK' /\ OneAtATime'
    BY <1>1, <1>3, <2>1 DEF IInv, TypeOK, OneAtATime
  <2>4. HeldOnce'
    BY <1>1, <1>2, <1>3, <2>1, HeldFrom
  <2> QED  BY <2>1, <2>2, <2>3, <2>4 DEF IInv
<1>4. ASSUME queues.inputPPQ # <<>>
      PROVE  /\ q \in Queues /\ f \in Frames
             /\ \A g : InQs(queues, g) = InQs(q, g) + OneIf(f = g)
             /\ q.ongoingPPQ = queues.ongoingPPQ
             /\ q.ongoingJpegQ = queues.ongoingJpegQ /\ q.inputJpegQ = queues.inputJpegQ
  <2>1. /\ q \in Queues /\ f \in Frames
        /\ \A g : InQs(queues, g) = InQs(q, g) + OneIf(f = g)
    BY <1>2, <1>4, TakenFromInputPPQ
  <2> QED  BY <1>2, <2>1 DEF Queues
<1>5. CASE /\ queues.inputPPQ # <<>> /\ reproc.on
           /\ queues' = [queues EXCEPT !.inputPPQ = Tail(@), !.ongoingPPQ = Append(@, f)]
           /\ GoesTo("reprocess") /\ UNCHANGED <<home, failed>>
  <2>1. queues' = [q EXCEPT !.ongoingPPQ = Append(q.ongoingPPQ, f)]
    BY <1>2, <1>5 DEF Queues
  <2> HIDE DEF q, f
  <2>2. queues' \in Queues /\ \A g : InQs(queues', g) = InQs(q, g) + OneIf(f = g)
    <3>1. q \in Queues /\ f \in Frames
      BY <1>4, <1>5
    <3> QED  BY <2>1, <3>1, AddedToOngoingPPQ
  <2>3. /\ queues'.ongoingJpegQ = queues.ongoingJpegQ /\ queues'.inputJpegQ = queues.inputJpegQ
        /\ queues'.ongoingPPQ = Append(queues.ongoingPPQ, f)
    BY <1>4, <1>5, <2>1 DEF Queues
  <2>4. /\ proc' \in Procs /\ proc'.pc = "reprocess" /\ OneStop' /\ JobInHand' /\ MadeOK'
        /\ (NumbersLast => Numbered)'
        /\ \A g : /\ Count(channel'.cb, g) = Count(channel.cb, g)
                  /\ Count(HandOf(proc'), g) = Count(HandOf(proc), g)
    BY <1>1, <1>5, <2>3, GoesOn
  <2>5. Reprocessed'
    <3>1. /\ f \in Frames /\ reproc'.on
          /\ reproc'.paired => queues'.ongoingPPQ = Append(reproc'.frames, f)
      BY <1>1, <1>2, <1>4, <1>5, <2>3
    <3>2. Len(queues'.ongoingPPQ) = Len(queues.ongoingPPQ) + 1
      BY <1>2, <2>3, <3>1, AppendProperties
    <3>3. Len(reproc'.frames) + 1 <= Len(queues'.ongoingPPQ)
      BY <1>1, <1>2, <3>2
    <3> QED  BY <2>4, <3>1, <3>3 DEF Reprocessed
  <2>6. TypeOK' /\ OneAtATime'
    BY <1>1, <1>5, <2>2, <2>4 DEF IInv, TypeOK, OneAtATime
  <2>7. HeldOnce'
    <3>1. ASSUME NEW g PROVE InQs(queues', g) = InQs(queues, g)
      BY <1>4, <1>5, <2>2
    <3> QED  BY <1>1, <1>2, <1>5, <2>4, <3>1, HeldFrom
  <2> QED  BY <2>4, <2>5, <2>6, <2>7 DEF IInv
<1>6. CASE /\ queues.inputPPQ # <<>>
           /\ queues' = q /\ GiveBack(<<f>>) /\ failed' = TRUE /\ GoesTo("idle")
  <2> HIDE DEF q, f
  <2>1. /\ queues' \in Queues /\ f \in Frames
        /\ \A g : InQs(queues, g) = InQs(queues', g) + OneIf(f = g)
        /\ queues'.ongoingPPQ = queues.ongoingPPQ
        /\ queues'.ongoingJpegQ = queues.ongoingJpegQ /\ queues'.inputJpegQ = queues.inputJpegQ
    BY <1>4, <1>6
  <2>2. /\ proc' \in Procs /\ proc'.pc = "idle" /\ OneStop' /\ JobInHand' /\ MadeOK'
        /\ (NumbersLast => Numbered)'
        /\ \A g : /\ Count(channel'.cb, g) = Count(channel.cb, g)
                  /\ Count(HandOf(proc'), g) = Count(HandOf(proc), g)
    BY <1>1, <1>6, <2>1, GoesOn
  <2>3. Reprocessed'
    BY <1>1, <2>1, <2>2, SameReproc DEF IInv
  <2>4. \A g \in Frames :
             /\ Count(channel'.cb, g) = Count(channel.cb, g)
             /\ Count(HandOf(proc'), g) = Count(HandOf(proc), g)
             /\ NotifierHas(notifier', g) = NotifierHas(notifier, g)
    BY <1>1, <2>2
  <2>5. home' \in [Frames -> Nat] /\ HeldOnce'
    BY <1>2, <1>6, <2>1, <2>4, OneReturned
  <2>6. failed' \in BOOLEAN
    BY <1>6
  <2>7. TypeOK' /\ OneAtATime'
    BY <1>1, <2>1, <2>2, <2>5, <2>6 DEF IInv, TypeOK, OneAtATime
  <2> QED  BY <2>2, <2>3, <2>5, <2>7 DEF IInv
<1> QED  BY <1>1, <1>3, <1>5, <1>6

LEMMA DoReprocessStep ==
    ASSUME IInv, DoReprocess
    PROVE  IInv'
<1> DEFINE last == Last(queues.ongoingPPQ)
<1>1. /\ proc.pc = "reprocess" /\ GoesTo("idle")
      /\ UNCHANGED <<use, m_state, sm, pictures, asked, evt_queue, channel, sync_sem>>
      /\ UNCHANGED <<encoder, notifier>>
      /\ \/ reproc' = [reproc EXCEPT !.frames = Append(@, last)] /\ UNCHANGED <<queues, home, failed>>
         \/ /\ queues' = [queues EXCEPT !.ongoingPPQ = Front(queues.ongoingPPQ)]
            /\ GiveBack(<<last>>) /\ failed' = TRUE /\ UNCHANGED reproc
  BY DEF DoReprocess, DropLast, apiVars
<1>2. /\ TypeOK /\ HeldOnce /\ proc \in Procs /\ queues \in Queues
      /\ reproc \in [on : BOOLEAN, frames : Seq(Frames), paired : BOOLEAN] /\ reproc.on
  BY <1>1 DEF IInv, TypeOK, Reprocessed
<1>3. /\ queues.ongoingPPQ \in Seq(Frames) /\ queues.ongoingPPQ # <<>>
      /\ reproc.paired => \E f \in Frames : queues.ongoingPPQ = Append(reproc.frames, f)
      /\ Len(reproc.frames) + 1 <= Len(queues.ongoingPPQ)
      /\ Len(reproc.frames) \in Nat /\ Len(queues.ongoingPPQ) \in Nat
  <2>1. queues.ongoingPPQ \in Seq(Frames) /\ reproc.frames \in Seq(Frames)
    BY <1>2 DEF Queues
  <2>2. Len(reproc.frames) \in Nat /\ Len(queues.ongoingPPQ) \in Nat
    BY <2>1, LenProperties
  <2>3. /\ reproc.paired => \E f \in Frames : queues.ongoingPPQ = Append(reproc.frames, f)
        /\ Len(reproc.frames) + 1 <= Len(queues.ongoingPPQ)
    BY <1>1 DEF IInv, Reprocessed
  <2>4. queues.ongoingPPQ # <<>>
    BY <2>2, <2>3
  <2> QED  BY <2>1, <2>2, <2>3, <2>4
<1>4. /\ last \in Frames /\ Len(Front(queues.ongoingPPQ)) = Len(queues.ongoingPPQ) - 1
      /\ reproc.paired => /\ queues.ongoingPPQ = Append(reproc.frames, last)
                         /\ Front(queues.ongoingPPQ) = reproc.frames
  <2> DEFINE s == queues.ongoingPPQ
             r == reproc.frames
  <2>1. r \in Seq(Frames) /\ s \in Seq(Frames) /\ s # <<>>
    BY <1>2, <1>3
  <2>2. /\ Front(s) \in Seq(Frames) /\ Last(s) = s[Len(s)] /\ Len(Front(s)) = Len(s) - 1
        /\ \A i \in 1 .. Len(s) - 1 : Front(s)[i] = s[i]
        /\ Last(s) \in Frames
    <3> HIDE DEF s
    <3> QED  BY <2>1, FrontAndLast
  <2>3. ASSUME reproc.paired PROVE s = Append(r, last) /\ Front(s) = r
    <3>1. PICK f \in Frames : s = Append(r, f)
      BY <1>3, <2>3
    <3> HIDE DEF r, s
    <3>2. /\ Len(s) = Len(r) + 1 /\ s[Len(s)] = f /\ Len(r) \in Nat
          /\ \A i \in 1 .. Len(r) : s[i] = r[i]
      BY <2>1, <3>1, AppendProperties, LenProperties
    <3>3. Len(Front(s)) = Len(r) /\ \A i \in 1 .. Len(r) : Front(s)[i] = r[i]
      BY <2>2, <3>2
    <3>4. Front(s) = r
      BY <2>1, <2>2, <3>3, SeqEqual
    <3>5. last = f
      BY <2>2, <3>2 DEF s
    <3> QED  BY <3>1, <3>4, <3>5
  <2> HIDE DEF r, s
  <2> QED  BY <2>2, <2>3 DEF s, r
<1>5. /\ queues'.ongoingJpegQ = queues.ongoingJpegQ /\ queues'.inputJpegQ = queues.inputJpegQ
      /\ reproc'.on = reproc.on /\ reproc'.paired = reproc.paired
  BY <1>1, <1>2 DEF Queues
<1>6. /\ proc' \in Procs /\ proc'.pc = "idle" /\ OneStop' /\ JobInHand' /\ MadeOK'
      /\ (NumbersLast => Numbered)'
      /\ \A g : /\ Count(channel'.cb, g) = Count(channel.cb, g)
                /\ Count(HandOf(proc'), g) = Count(HandOf(proc), g)
  BY <1>1, <1>5, GoesOn
<1>7. CASE reproc' = [reproc EXCEPT !.frames = Append(@, last)] /\ UNCHANGED <<queues, home, failed>>
  <2> DEFINE r == Append(reproc.frames, last)
  <2>0. reproc.frames \in Seq(Frames) /\ last \in Frames
    BY <1>2, <1>4
  <2>1. /\ reproc'.frames = r /\ r \in Seq(Frames) /\ Len(r) = Len(reproc.frames) + 1
        /\ reproc' \in [on : BOOLEAN, frames : Seq(Frames), paired : BOOLEAN]
    <3>1. r \in Seq(Frames) /\ Len(r) = Len(reproc.frames) + 1
      <4> HIDE DEF last
      <4> QED  BY <2>0, AppendProperties
    <3> HIDE DEF last
    <3>2. reproc' = [reproc EXCEPT !.frames = r]
      BY <1>7
    <3> HIDE DEF r
    <3> QED  BY <1>2, <3>1, <3>2
  <2>2. Reprocessed'
    <3>1. reproc'.paired => queues'.ongoingPPQ = reproc'.frames
      BY <1>4, <1>5, <1>7, <2>1
    <3>2. Len(reproc'.frames) + 0 <= Len(queues'.ongoingPPQ)
      BY <1>3, <1>7, <2>1
    <3> QED  BY <1>2, <1>5, <1>6, <3>1, <3>2 DEF Reprocessed
  <2>3. TypeOK' /\ OneAtATime'
    BY <1>1, <1>6, <1>7, <2>1 DEF IInv, TypeOK, OneAtATime
  <2>4. HeldOnce'
    BY <1>1, <1>2, <1>6, <1>7, HeldFrom
  <2> QED  BY <1>6, <2>2, <2>3, <2>4 DEF IInv
<1>8. CASE /\ queues' = [queues EXCEPT !.ongoingPPQ = Front(queues.ongoingPPQ)]
           /\ GiveBack(<<last>>) /\ failed' = TRUE /\ UNCHANGED reproc
  <2>1. /\ queues' \in Queues /\ last \in Frames
        /\ \A g : InQs(queues, g) = InQs(queues', g) + OneIf(last = g)
    BY <1>2, <1>3, <1>4, <1>8, DroppedFromOngoingPPQ
  <2>2. Reprocessed'
    <3>1. queues'.ongoingPPQ = Front(queues.ongoingPPQ) /\ reproc' = reproc
      BY <1>2, <1>8 DEF Queues
    <3>2. reproc'.paired => queues'.ongoingPPQ = reproc'.frames
      BY <1>4, <3>1
    <3>3. Len(reproc'.frames) + 0 <= Len(queues'.ongoingPPQ)
      BY <1>3, <1>4, <3>1
    <3> QED  BY <1>2, <1>6, <3>1, <3>2, <3>3 DEF Reprocessed
  <2> HIDE DEF last
  <2>3. \A g \in Frames :
             /\ Count(channel'.cb, g) = Count(channel.cb, g)
             /\ Count(HandOf(proc'), g) = Count(HandOf(proc), g)
             /\ NotifierHas(notifier', g) = NotifierHas(notifier, g)
    BY <1>1, <1>6
  <2>4. home' \in [Frames -> Nat] /\ HeldOnce'
    BY <1>2, <1>8, <2>1, <2>3, OneReturned
  <2>5. failed' \in BOOLEAN
    BY <1>8
  <2>6. TypeOK' /\ OneAtATime'
    BY <1>1, <1>6, <1>8, <2>1, <2>4, <2>5 DEF IInv, TypeOK, OneAtATime
  <2> QED  BY <1>6, <2>2, <2>4, <2>6 DEF IInv
<1> QED  BY <1>1, <1>7, <1>8

-----------------------------------------------------------------------------
(* STOP_DATA_PROC                                                          *)

LEMMA ProcStopStep ==
    ASSUME IInv, ProcStop
    PROVE  IInv'
<1>1. /\ ProcTakes("stop") /\ proc' = [Received(proc) EXCEPT !.active = FALSE, !.pc = "abort"]
      /\ UNCHANGED <<use, m_state, sm, pictures, asked, evt_queue, channel, sync_sem, reproc>>
      /\ UNCHANGED <<failed, home, queues, encoder, notifier>>
  BY DEF ProcStop, procOnly, apiVars
<1>2. /\ proc.pc = "idle" /\ proc' \in Procs /\ proc'.pc = "abort" /\ proc'.job = proc.job
      /\ Count(proc.cmds, "stop") = Count(proc'.cmds, "stop") + 1
      /\ Count(proc'.cmds, "stop") \in Nat
  <2>1. proc \in Procs
    BY DEF IInv, TypeOK
  <2> QED  BY <1>1, <2>1, ProcGets DEF OneIf
<1>3. TypeOK'
  BY <1>1, <1>2 DEF IInv, TypeOK
<1>4. OneStop'
  <2> DEFINE c == Count(proc.cmds, "stop")
             d == Count(proc'.cmds, "stop")
             e == IF sm = "idle" THEN 0 ELSE 1
  <2>1. c + 0 + sync_sem = e /\ (reproc.on => sync_sem = 0)
    BY <1>2 DEF IInv, OneStop, Stopping
  <2>2. c = d + 1 /\ d \in Nat /\ sync_sem \in Nat /\ e \in Nat
    BY <1>2 DEF IInv, TypeOK
  <2> HIDE DEF c, d, e
  <2>3. d + 1 + sync_sem = e
    BY <2>1, <2>2
  <2> QED  BY <1>1, <1>2, <2>1, <2>3 DEF OneStop, Stopping, d, e
<1>5. HeldOnce'
  BY <1>1, <1>2, HeldFrom DEF IInv, HandOf
<1>6. OneAtATime' /\ Reprocessed' /\ JobInHand' /\ MadeOK' /\ (NumbersLast => Numbered)'
  BY <1>1, <1>2, NoEvent, SameReproc, SameJobs, SameMade, SameNumbers DEF IInv, OneAtATime
<1> QED  BY <1>3, <1>4, <1>5, <1>6 DEF IInv

\* The places of a queue of which one was removed.
LEMMA PlacesRemoved ==
    ASSUME NEW S, NEW s \in Seq(S), NEW i \in DOMAIN s
    PROVE  /\ RemoveAt(s, i) \in Seq(S)
           /\ \A k \in DOMAIN RemoveAt(s, i) :
                LET old == IF k < i THEN k ELSE k + 1
                IN  old \in DOMAIN s \ {i} /\ RemoveAt(s, i)[k] = s[old]
<1> DEFINE n == Len(s)
           a == SubSeq(s, 1, i - 1)
           b == SubSeq(s, i + 1, n)
           r == a \o b
<1>1. /\ n \in Nat /\ DOMAIN s = 1 .. n /\ i \in 1 .. n /\ \A k \in 1 .. n : s[k] \in S
  BY LenProperties, ElementOfSeq
<1>2. a \in Seq(S) /\ Len(a) = i - 1 /\ \A k \in 1 .. i - 1 : a[k] = s[k]
  <2>1. /\ \A k \in 1 .. i - 1 : s[k] \in S
        /\ i - 1 \in 0 .. n
    BY <1>1
  <2>2. /\ a \in Seq(S) /\ Len(a) = IF 1 <= i - 1 THEN i - 1 - 1 + 1 ELSE 0
        /\ \A k \in 1 .. i - 1 - 1 + 1 : a[k] = s[1 + k - 1]
    BY <1>1, <2>1, SubSeqProperties
  <2> HIDE DEF a, n
  <2> QED  BY <1>1, <2>2
<1>3. b \in Seq(S) /\ Len(b) = n - i /\ \A k \in 1 .. n - i : b[k] = s[k + i]
  <2>1. /\ \A k \in i + 1 .. n : s[k] \in S
    BY <1>1
  <2>2. /\ b \in Seq(S) /\ Len(b) = IF i + 1 <= n THEN n - (i + 1) + 1 ELSE 0
        /\ \A k \in 1 .. n - (i + 1) + 1 : b[k] = s[(i + 1) + k - 1]
    BY <1>1, <2>1, SubSeqProperties
  <2> HIDE DEF b, n
  <2>3. Len(b) = n - i
    BY <1>1, <2>2
  <2>4. ASSUME NEW k \in 1 .. n - i PROVE b[k] = s[k + i]
    <3>1. k \in 1 .. n - (i + 1) + 1 /\ (i + 1) + k - 1 = k + i
      BY <1>1
    <3>2. b[k] = s[(i + 1) + k - 1]
      BY <2>2, <3>1
    <3> QED  BY <3>1, <3>2
  <2> QED  BY <2>2, <2>3, <2>4
<1> HIDE DEF a, b, n
<1>4. /\ r \in Seq(S) /\ Len(r) = n - 1 /\ DOMAIN r = 1 .. n - 1
      /\ \A k \in 1 .. n - 1 : r[k] = IF k <= i - 1 THEN a[k] ELSE b[k - (i - 1)]
  <2>1. /\ r \in Seq(S) /\ Len(r) = Len(a) + Len(b)
        /\ \A k \in 1 .. Len(a) + Len(b) : r[k] = IF k <= Len(a) THEN a[k] ELSE b[k - Len(a)]
    BY <1>2, <1>3, ConcatProperties
  <2> HIDE DEF r
  <2>2. DOMAIN r = 1 .. Len(r)
    BY <2>1, LenProperties
  <2> QED  BY <1>1, <1>2, <1>3, <2>1, <2>2
<1>5. RemoveAt(s, i) = r
  BY DEF RemoveAt, r, a, b, n
<1> HIDE DEF r
<1>6. ASSUME NEW k \in 1 .. n - 1
      PROVE  LET old == IF k < i THEN k ELSE k + 1
             IN  old \in 1 .. n /\ old # i /\ r[k] = s[old]
  <2>1. CASE k < i
    BY <1>1, <1>2, <1>4, <2>1
  <2>2. CASE ~ (k < i)
    <3>1. k - (i - 1) \in 1 .. n - i /\ (k - (i - 1)) + i = k + 1
      BY <1>1, <2>2
    <3>2. r[k] = b[k - (i - 1)]
      BY <1>1, <1>4, <2>2
    <3>3. b[k - (i - 1)] = s[k + 1]
      BY <1>3, <3>1
    <3>4. k + 1 \in 1 .. n /\ k + 1 # i
      BY <1>1, <2>2
    <3> QED  BY <2>2, <3>2, <3>3, <3>4
  <2> QED  BY <2>1, <2>2
<1> QED  BY <1>1, <1>4, <1>5, <1>6

\* The encoder is left with the jobs that have another number.
LEMMA AbortLeaves ==
    ASSUME encoder \in Encoders, OneAtATime, NEW id, AbortJob(id)
    PROVE  /\ encoder' \in Encoders /\ Len(encoder'.ongoing) <= 1 /\ encoder'.hist = encoder.hist
           /\ Range(encoder'.todo) \subseteq Range(encoder.todo)
           /\ Range(encoder'.ongoing) \subseteq Range(encoder.ongoing)
           /\ Numbered =>
                /\ \A job \in Range(encoder'.todo) \cup Range(encoder'.ongoing) : job.id # id
                /\ \A i, j \in DOMAIN encoder'.todo :
                     encoder'.todo[i].id = encoder'.todo[j].id => i = j
<1> DEFINE t == encoder.todo
           u == encoder'.todo
<1>1. t \in Seq(EncoderJobs) /\ encoder.ongoing \in Seq(EncoderJobs) /\ Len(encoder.ongoing) <= 1
  BY DEF Encoders, OneAtATime
<1>2. CASE \E i \in DOMAIN t : FirstJob(t, id, i) /\ encoder' = [encoder EXCEPT !.todo = RemoveAt(t, i)]
  <2>1. PICK i \in DOMAIN t : FirstJob(t, id, i) /\ encoder' = [encoder EXCEPT !.todo = RemoveAt(t, i)]
    BY <1>2
  <2>2. /\ RemoveAt(t, i) \in Seq(EncoderJobs)
        /\ \A k \in DOMAIN RemoveAt(t, i) :
             LET old == IF k < i THEN k ELSE k + 1
             IN  old \in DOMAIN t \ {i} /\ RemoveAt(t, i)[k] = t[old]
    BY <1>1, PlacesRemoved
  <2>3. /\ encoder' \in Encoders /\ u = RemoveAt(t, i) /\ encoder'.ongoing = encoder.ongoing
        /\ encoder'.hist = encoder.hist
    BY <2>1, <2>2 DEF Encoders
  <2>4. DOMAIN t \subseteq Nat /\ DOMAIN u \subseteq Nat
    <3>1. DOMAIN t = 1 .. Len(t) /\ Len(t) \in Nat
      BY <1>1, LenProperties
    <3>2. DOMAIN u = 1 .. Len(u) /\ Len(u) \in Nat
      BY <2>2, <2>3, LenProperties
    <3> QED  BY <3>1, <3>2
  <2>5. \A k \in DOMAIN u : LET old == IF k < i THEN k ELSE k + 1
                            IN  old \in DOMAIN t \ {i} /\ u[k] = t[old]
    BY <2>2, <2>3
  <2>6. t[i].id = id
    BY <2>1 DEF FirstJob
  <2> HIDE DEF t, u
  <2>7. Range(u) \subseteq Range(t)
    BY <2>5 DEF Range
  <2>8. ASSUME Numbered
        PROVE  /\ \A job \in Range(u) \cup Range(encoder.ongoing) : job.id # id
               /\ \A j, k \in DOMAIN u : u[j].id = u[k].id => j = k
    <3>1. /\ \A j, k \in DOMAIN t : t[j].id = t[k].id => j = k
          /\ \A k \in DOMAIN t : \A job \in Range(encoder.ongoing) : t[k].id # job.id
      BY <2>8 DEF Numbered, t
    <3>2. \A k \in DOMAIN u : u[k].id # id
      BY <2>5, <2>6, <3>1
    <3>3. \A job \in Range(u) : job.id # id
      BY <3>2 DEF Range
    <3>4. \A job \in Range(encoder.ongoing) : job.id # id
      BY <2>6, <3>1
    <3>5. ASSUME NEW j \in DOMAIN u, NEW k \in DOMAIN u, u[j].id = u[k].id
          PROVE  j = k
      <4> DEFINE oj == IF j < i THEN j ELSE j + 1
                 ok == IF k < i THEN k ELSE k + 1
      <4>1. oj \in DOMAIN t /\ ok \in DOMAIN t /\ u[j] = t[oj] /\ u[k] = t[ok]
        BY <2>5
      <4>2. oj = ok
        BY <3>1, <3>5, <4>1
      <4> QED  BY <2>4, <4>2
    <3> QED  BY <3>3, <3>4, <3>5
  <2> QED  BY <1>1, <2>3, <2>7, <2>8 DEF t, u
<1>3. CASE /\ ~ HasJob(t, id)
           /\ encoder' = [encoder EXCEPT !.ongoing = IF HasJob(@, id) THEN <<>> ELSE @]
  <2> DEFINE o == IF HasJob(encoder.ongoing, id) THEN <<>> ELSE encoder.ongoing
  <2>1. o \in Seq(EncoderJobs) /\ Len(o) <= 1 /\ Range(o) \subseteq Range(encoder.ongoing)
    BY <1>1, EmptySeq DEF Range
  <2>2. \A job \in Range(o) : job.id # id
    BY DEF HasJob, Range
  <2>3. \A job \in Range(t) : job.id # id
    BY <1>3 DEF HasJob, Range
  <2>4. encoder' = [encoder EXCEPT !.ongoing = o]
    BY <1>3
  <2> HIDE DEF o
  <2>5. encoder' \in Encoders /\ u = t /\ encoder'.ongoing = o /\ encoder'.hist = encoder.hist
    BY <2>1, <2>4 DEF Encoders
  <2> QED  BY <2>1, <2>2, <2>3, <2>5 DEF Numbered
<1> QED  BY <1>2, <1>3 DEF AbortJob

LEMMA AbortNextStep ==
    ASSUME IInv, AbortNext
    PROVE  IInv'
<1> DEFINE jobs == queues.ongoingJpegQ
           kept == queues'.ongoingJpegQ
           first == Head(queues.ongoingJpegQ)
<1>1. /\ proc.pc = "abort"
      /\ UNCHANGED <<use, m_state, sm, pictures, asked, evt_queue, channel, sync_sem, reproc>>
      /\ UNCHANGED <<failed, home, notifier>>
      /\ \/ /\ jobs = <<>> /\ proc' = [proc EXCEPT !.pc = "destroy"] /\ UNCHANGED <<queues, encoder>>
         \/ /\ jobs # <<>> /\ queues' = [queues EXCEPT !.ongoingJpegQ = Tail(queues.ongoingJpegQ)]
            /\ AbortJob(first.id)
            /\ proc' = [proc EXCEPT !.pc = "release", !.job = <<first>>]
  BY DEF AbortNext, procOnly, apiVars, GoesTo
<1>2. /\ TypeOK /\ HeldOnce /\ jobs \in Seq(Jobs) /\ proc \in Procs /\ queues \in Queues
      /\ encoder \in Encoders
  BY DEF IInv, TypeOK, Queues
<1>3. CASE jobs = <<>> /\ proc' = [proc EXCEPT !.pc = "destroy"] /\ UNCHANGED <<queues, encoder>>
  <2>1. proc' \in Procs /\ proc'.pc = "destroy" /\ proc'.job = proc.job /\ proc'.cmds = proc.cmds
    BY <1>2, <1>3 DEF Procs, Stopping
  <2>2. TypeOK' /\ OneAtATime'
    BY <1>1, <1>3, <2>1 DEF IInv, TypeOK, OneAtATime
  <2>3. JobInHand'
    BY <1>1, <1>3, <2>1 DEF IInv, JobInHand
  <2>4. OneStop'
    BY <1>1, <2>1, SameStop DEF IInv, Stopping
  <2>5. Reprocessed' /\ MadeOK' /\ (NumbersLast => Numbered)'
    BY <1>1, <1>3, <2>1, NoEvent, SameReproc, SameMade, SameNumbers DEF IInv
  <2>6. HeldOnce'
    BY <1>1, <1>2, <1>3, <2>1, HeldFrom DEF HandOf
  <2> QED  BY <2>2, <2>3, <2>4, <2>5, <2>6 DEF IInv
<1>4. CASE /\ jobs # <<>> /\ queues' = [queues EXCEPT !.ongoingJpegQ = Tail(queues.ongoingJpegQ)]
           /\ AbortJob(first.id)
           /\ proc' = [proc EXCEPT !.pc = "release", !.job = <<first>>]
  <2>1. /\ queues' \in Queues /\ first \in Jobs /\ first.src \in Frames
        /\ \A g : InQs(queues, g) = InQs(queues', g) + OneIf(first.src = g)
    BY <1>2, <1>4, TakenFromOngoingJpegQ
  <2>2. /\ kept = Tail(jobs) /\ queues'.ongoingPPQ = queues.ongoingPPQ
        /\ queues'.inputJpegQ = queues.inputJpegQ
    BY <1>2, <1>4 DEF Queues
  <2> HIDE DEF first
  <2>3. /\ proc' \in Procs /\ proc'.pc = "release" /\ proc'.job = <<first>> /\ proc'.cmds = proc.cmds
    <3>1. <<first>> \in Seq(Jobs)
      BY <2>1
    <3> QED  BY <1>2, <1>4, <3>1 DEF Procs, Stopping
  <2>4. /\ encoder' \in Encoders /\ Len(encoder'.ongoing) <= 1 /\ encoder'.hist = encoder.hist
        /\ Range(encoder'.todo) \subseteq Range(encoder.todo)
        /\ Range(encoder'.ongoing) \subseteq Range(encoder.ongoing)
        /\ Numbered =>
             /\ \A job \in Range(encoder'.todo) \cup Range(encoder'.ongoing) : job.id # first.id
             /\ \A i, j \in DOMAIN encoder'.todo :
                  encoder'.todo[i].id = encoder'.todo[j].id => i = j
    BY <1>2, <1>4, AbortLeaves DEF IInv
  <2>5. TypeOK' /\ OneAtATime'
    BY <1>1, <2>1, <2>3, <2>4 DEF IInv, TypeOK, OneAtATime
  <2>6. HeldOnce'
    <3>1. HandOf(proc') = <<first.src>> /\ HandOf(proc) = <<>>
      BY <1>1, <2>3, SourcesOne DEF HandOf
    <3>2. ASSUME NEW g \in Frames
          PROVE  home'[g] + InQs(queues', g) + Count(HandOf(proc'), g) + NotifierHas(notifier', g)
                   = home[g] + InQs(queues, g) + Count(HandOf(proc), g) + NotifierHas(notifier, g)
      <4> DEFINE h == home[g]
                 a == InQs(queues, g)
                 a2 == InQs(queues', g)
                 c == Count(HandOf(proc), g)
                 c2 == Count(HandOf(proc'), g)
                 z == NotifierHas(notifier, g)
                 o == OneIf(first.src = g)
      <4>1. h \in Nat /\ a2 \in Nat /\ o \in Nat /\ z \in Nat
        BY <1>2, <2>1, PlacesAreNat, QueueCounts DEF OneIf
      <4>2. c = 0 /\ c2 = o
        BY <3>1, CountNone, CountOne
      <4>3. a = a2 + o /\ home'[g] = h /\ NotifierHas(notifier', g) = z
        BY <1>1, <2>1
      <4> HIDE DEF h, a, a2, c, c2, z, o
      <4>4. h + a2 + c2 + z = h + a + c + z
        BY <4>1, <4>2, <4>3
      <4> QED  BY <4>3, <4>4 DEF h, a, a2, c, c2, z
    <3>3. channel'.cb = channel.cb
      BY <1>1
    <3> QED  BY <1>2, <2>5, <3>2, <3>3, HeldKept
  <2>7. MadeOK'
    <3>1. Range(kept) \subseteq Range(jobs)
      BY <1>2, <1>4, <2>2, RangeTaken
    <3> QED  BY <1>1, <2>2, <3>1 DEF IInv, MadeOK
  <2>8. JobInHand'
    BY <1>1, <2>3 DEF IInv, JobInHand
  <2>9. ASSUME Numbered PROVE Numbered'
    <3>1. ASSUME NEW job \in Range(encoder'.todo) \cup Range(encoder'.ongoing)
          PROVE  \E k \in DOMAIN kept : Number(k)' = job.id /\ kept[k].src = job.src
      <4>1. job \in Range(encoder.todo) \cup Range(encoder.ongoing) /\ job.id # first.id
        BY <2>4, <2>9
      <4>2. PICK i \in DOMAIN jobs : Number(i) = job.id /\ jobs[i].src = job.src
        BY <2>9, <4>1 DEF Numbered
      <4>3. Number(i) = jobs[i].id
        BY <1>1 DEF Number
      <4>4. /\ first = jobs[1] /\ DOMAIN jobs = 1 .. Len(jobs) /\ Len(jobs) \in Nat \ {0}
            /\ DOMAIN kept = 1 .. Len(jobs) - 1
            /\ \A k \in 1 .. Len(jobs) - 1 : kept[k] = jobs[k + 1]
        <5> DEFINE s == jobs
                   r == Tail(jobs)
        <5>1. /\ DOMAIN s = 1 .. Len(s) /\ Len(s) \in Nat \ {0}
              /\ r \in Seq(Jobs) /\ Len(r) = Len(s) - 1 /\ Head(s) = s[1]
              /\ \A k \in 1 .. Len(r) : r[k] = s[k + 1]
          BY <1>2, <1>4, LenProperties, EmptySeq, HeadTailProperties
        <5> HIDE DEF r
        <5>2. DOMAIN r = 1 .. Len(r)
          BY <5>1, LenProperties
        <5> QED  BY <2>2, <5>1, <5>2 DEF r, first
      <4>5. i # 1
        BY <4>1, <4>2, <4>3, <4>4
      <4>6. PICK k \in DOMAIN kept : k = i - 1 /\ kept[k] = jobs[i]
        <5> HIDE DEF kept, jobs
        <5> QED  BY <4>4, <4>5
      <4>7. Number(k)' = kept[k].id
        BY <2>3 DEF Number
      <4> QED  BY <4>2, <4>3, <4>6, <4>7
    <3>2. \A job \in Range(encoder'.todo) \cup Range(encoder'.ongoing) :
            /\ job.id \in 256 .. 255 + encoder.hist
            /\ \A i \in DOMAIN evt_queue : evt_queue[i].type = "jpeg" => evt_queue[i].id # job.id
      BY <2>4, <2>9 DEF Numbered
    <3>3. \A i \in DOMAIN encoder'.todo : \A job \in Range(encoder'.ongoing) :
            encoder'.todo[i].id # job.id
      <4> SUFFICES ASSUME NEW i \in DOMAIN encoder'.todo, NEW job \in Range(encoder'.ongoing)
                   PROVE  encoder'.todo[i].id # job.id
        OBVIOUS
      <4>1. encoder'.todo[i] \in Range(encoder.todo) /\ job \in Range(encoder.ongoing)
        BY <2>4 DEF Range
      <4> QED  BY <2>9, <4>1 DEF Numbered, Range
    <3>4. \A i \in DOMAIN evt_queue : evt_queue[i].type = "jpeg" => evt_queue[i].id <= 255 + encoder.hist
      BY <2>9 DEF Numbered
    <3> HIDE DEF kept
    <3> QED  BY <1>1, <2>4, <2>9, <3>1, <3>2, <3>3, <3>4 DEF Numbered, kept
  <2>10. (NumbersLast => Numbered)'
    BY <2>4, <2>9 DEF IInv, NumbersLast
  <2>11. OneStop' /\ Reprocessed'
    <3>1. proc'.pc \in Stopping /\ proc.pc \in Stopping
      BY <1>1, <2>3 DEF Stopping
    <3> QED  BY <1>1, <2>2, <2>3, <3>1, SameStop, SameReproc DEF IInv
  <2> QED  BY <2>5, <2>6, <2>7, <2>8, <2>10, <2>11 DEF IInv
<1> QED  BY <1>1, <1>3, <1>4

LEMMA ReleaseAbortedStep ==
    ASSUME IInv, ReleaseAborted
    PROVE  IInv'
<1> DEFINE s == Sources(proc.job)
<1>1. /\ proc.pc = "release" /\ GiveBack(s)
      /\ proc' = [proc EXCEPT !.pc = "abort", !.job = <<>>]
      /\ UNCHANGED <<use, m_state, sm, pictures, asked, evt_queue, channel, sync_sem, reproc>>
      /\ UNCHANGED <<failed, queues, encoder, notifier>>
  BY DEF ReleaseAborted, procOnly, apiVars
<1>2. TypeOK /\ HeldOnce /\ proc \in Procs /\ s \in Seq(Frames)
  BY SourcesType DEF IInv, TypeOK, Procs
<1>3. proc' \in Procs /\ proc'.pc = "abort" /\ proc'.cmds = proc.cmds
  BY <1>1, <1>2, EmptySeq DEF Procs, Stopping
<1>4. HandOf(proc) = s /\ HandOf(proc') = <<>>
  BY <1>1, <1>3 DEF HandOf
<1> HIDE DEF s
<1>5. home' \in [Frames -> Nat] /\ \A f \in Frames : home'[f] = home[f] + Count(s, f)
  BY <1>1, <1>2, Returned
<1>6. TypeOK' /\ OneAtATime'
  BY <1>1, <1>3, <1>5 DEF IInv, TypeOK, OneAtATime
<1>7. HeldOnce'
  <2>1. ASSUME NEW g \in Frames
        PROVE  home'[g] + InQs(queues', g) + Count(HandOf(proc'), g) + NotifierHas(notifier', g)
                 = home[g] + InQs(queues, g) + Count(HandOf(proc), g) + NotifierHas(notifier, g)
    <3> DEFINE h == home[g]
               h2 == home'[g]
               a == InQs(queues, g)
               c == Count(HandOf(proc), g)
               c2 == Count(HandOf(proc'), g)
               z == NotifierHas(notifier, g)
    <3>1. h \in Nat /\ a \in Nat /\ c \in Nat /\ z \in Nat
      BY <1>2, PlacesAreNat
    <3>2. c2 = 0 /\ h2 = h + c
      BY <1>4, <1>5, CountNone
    <3>3. InQs(queues', g) = a /\ NotifierHas(notifier', g) = z
      BY <1>1
    <3> HIDE DEF h, h2, a, c, c2, z
    <3>4. h2 + a + c2 + z = h + a + c + z
      BY <3>1, <3>2
    <3> QED  BY <3>3, <3>4 DEF h, h2, a, c, c2, z
  <2>2. channel'.cb = channel.cb
    BY <1>1
  <2> QED  BY <1>2, <1>6, <2>1, <2>2, HeldKept
<1>8. JobInHand'
  BY <1>1, <1>3 DEF IInv, JobInHand
<1>9. (NumbersLast => Numbered)'
  <2>1. ASSUME NEW i \in DOMAIN queues.ongoingJpegQ PROVE Number(i)' = Number(i)
    BY <1>1, <1>3 DEF Number
  <2>2. (NumbersLast => Numbered) /\ NoNewEnd
    BY <1>1, NoEvent DEF IInv
  <2> QED  BY <1>1, <2>1, <2>2, NumbersKept
<1>10. OneStop' /\ Reprocessed' /\ MadeOK'
  <2>1. proc'.pc \in Stopping /\ proc.pc \in Stopping
    BY <1>1, <1>3 DEF Stopping
  <2> QED  BY <1>1, <1>3, <2>1, SameStop, SameReproc, SameMade DEF IInv
<1> QED  BY <1>6, <1>7, <1>8, <1>9, <1>10 DEF IInv

LEMMA DestroySessionStep ==
    ASSUME IInv, DestroySession
    PROVE  IInv'
<1>1. /\ proc.pc = "destroy" /\ proc' = [proc EXCEPT !.pc = "flush"]
      /\ encoder' = [encoder EXCEPT !.session = FALSE, !.todo = <<>>, !.ongoing = <<>>]
      /\ UNCHANGED <<use, m_state, sm, pictures, asked, evt_queue, channel, sync_sem, reproc>>
      /\ UNCHANGED <<failed, home, queues, notifier>>
  BY DEF DestroySession, procOnly, apiVars, GoesTo
<1>2. TypeOK /\ HeldOnce /\ proc \in Procs /\ encoder \in Encoders /\ queues.ongoingJpegQ = <<>>
  BY <1>1 DEF IInv, TypeOK, JobInHand
<1>3. proc' \in Procs /\ proc'.pc = "flush" /\ proc'.job = proc.job /\ proc'.cmds = proc.cmds
  BY <1>1, <1>2 DEF Procs, Stopping
<1>4. /\ encoder' \in Encoders /\ encoder'.todo = <<>> /\ encoder'.ongoing = <<>>
      /\ encoder'.hist = encoder.hist
  BY <1>1, <1>2, EmptySeq DEF Encoders
<1>5. TypeOK' /\ OneAtATime'
  BY <1>1, <1>3, <1>4 DEF IInv, TypeOK, OneAtATime
<1>6. HeldOnce'
  BY <1>1, <1>2, <1>3, HeldFrom DEF HandOf
<1>7. JobInHand' /\ Reprocessed' /\ MadeOK'
  BY <1>1, <1>2, <1>3, SameReproc, SameMade DEF IInv, JobInHand
<1>8. OneStop'
  <2>1. proc'.pc \in Stopping /\ proc.pc \in Stopping
    BY <1>1, <1>3 DEF Stopping
  <2> QED  BY <1>1, <1>3, <2>1, SameStop DEF IInv
<1>9. (NumbersLast => Numbered)'
  <2>1. Range(encoder'.todo) = {} /\ Range(encoder'.ongoing) = {} /\ DOMAIN encoder'.todo = {}
    BY <1>4 DEF Range
  <2>2. NumbersLast => \A i \in DOMAIN evt_queue :
                          evt_queue[i].type = "jpeg" => evt_queue[i].id <= 255 + encoder.hist
    BY DEF IInv, Numbered
  <2> QED  BY <1>1, <1>4, <2>1, <2>2 DEF NumbersLast, Numbered
<1> QED  BY <1>5, <1>6, <1>7, <1>8, <1>9 DEF IInv

LEMMA FlushQueuesStep ==
    ASSUME IInv, FlushQueues
    PROVE  IInv'
<1> DEFINE x == queues.ongoingPPQ
           y == Sources(queues.inputJpegQ)
           z == queues.inputPPQ
           w == queues.inputRawQ
           all == x \o y \o z
<1>1. /\ proc.pc = "flush" /\ proc' = [proc EXCEPT !.pc = "idle"]
      /\ reproc' = [on |-> FALSE, frames |-> <<>>, paired |-> TRUE]
      /\ home' = [f \in Frames |-> home[f] + Count(all, f) + Count(w, <<f>>)] /\ queues' = NoQueues /\ sync_sem' = sync_sem + 1
      /\ UNCHANGED <<use, m_state, sm, pictures, asked, evt_queue, failed, channel, encoder, notifier>>
  BY DEF FlushQueues, apiVars, GoesTo
<1>2. /\ TypeOK /\ HeldOnce /\ proc \in Procs /\ queues \in Queues /\ sync_sem \in Nat
      /\ queues.ongoingJpegQ = <<>>
  BY <1>1 DEF IInv, TypeOK, JobInHand
<1>3. proc' \in Procs /\ proc'.pc = "idle" /\ proc'.job = proc.job /\ proc'.cmds = proc.cmds
  BY <1>1, <1>2 DEF Procs
<1>4. /\ queues' \in Queues /\ queues'.inputPPQ = <<>> /\ queues'.ongoingPPQ = <<>>
      /\ queues'.inputRawQ = <<>> /\ queues'.inputJpegQ = <<>> /\ queues'.ongoingJpegQ = <<>>
  <2>1. <<>> \in Seq(Frames) /\ <<>> \in Seq(Jobs) /\ <<>> \in Seq(Callbacks)
    BY EmptySeq
  <2> QED  BY <1>1, <2>1 DEF NoQueues, Queues
<1>5. x \in Seq(Frames) /\ y \in Seq(Frames) /\ z \in Seq(Frames) /\ w \in Seq(Callbacks)
  BY <1>2, SourcesType DEF Queues
<1> HIDE DEF x, y, z, w
<1>6. /\ all \in Seq(Frames)
      /\ \A f : Count(all, f) = Count(x, f) + Count(y, f) + Count(z, f)
  <2> DEFINE xy == x \o y
             xyz == xy \o z
  <2>1. xy \in Seq(Frames) /\ \A f : Count(xy, f) = Count(x, f) + Count(y, f)
    BY <1>5, ConcatProperties, CountConcat
  <2> HIDE DEF xy
  <2>2. xyz \in Seq(Frames) /\ \A f : Count(xyz, f) = Count(xy, f) + Count(z, f)
    BY <1>5, <2>1, ConcatProperties, CountConcat
  <2> QED  BY <2>1, <2>2 DEF xy, xyz
<1> HIDE DEF all
<1>7. /\ home' \in [Frames -> Nat]
      /\ \A f \in Frames : home'[f] = home[f] + Count(all, f) + Count(w, <<f>>)
  <2>1. \A f \in Frames : home[f] \in Nat /\ Count(all, f) \in Nat /\ Count(w, <<f>>) \in Nat
    BY <1>2, <1>5, <1>6, CountIsNat DEF TypeOK
  <2> QED  BY <1>1, <2>1
<1>8. ASSUME NEW f \in Frames
      PROVE  home'[f] \in Nat /\ home'[f] + InQs(queues', f) = home[f] + InQs(queues, f)
  <2> DEFINE a == Count(x, f)
             b == Count(y, f)
             c == Count(z, f)
             d == Count(w, <<f>>)
             h == home[f]
  <2>1. a \in Nat /\ b \in Nat /\ c \in Nat /\ d \in Nat /\ h \in Nat
    BY <1>2, <1>5, CountIsNat, PlacesAreNat
  <2>2. InQs(queues, f) = c + a + d + b + 0
    BY <1>2, SourcesNone, CountNone DEF InQs, x, y, z, w
  <2>3. InQs(queues', f) = 0 + 0 + 0 + 0 + 0
    BY <1>4, SourcesNone, CountNone DEF InQs
  <2>4. home'[f] = h + (a + b + c) + d
    BY <1>6, <1>7
  <2> HIDE DEF a, b, c, d, h
  <2>5. h + (a + b + c) + d \in Nat /\ (h + (a + b + c) + d) + 0 = h + (c + a + d + b + 0)
    BY <2>1
  <2> QED  BY <2>2, <2>3, <2>4, <2>5 DEF h
<1>9. HeldOnce'
  <2>1. \A f \in Frames :
             /\ Count(channel'.cb, f) = Count(channel.cb, f)
             /\ Count(HandOf(proc'), f) = Count(HandOf(proc), f)
             /\ NotifierHas(notifier', f) = NotifierHas(notifier, f)
    BY <1>1, <1>3 DEF HandOf
  <2> QED  BY <1>2, <1>4, <1>8, <2>1, HeldMoved
<1>10. TypeOK' /\ OneAtATime'
  <2>1. reproc' \in [on : BOOLEAN, frames : Seq(Frames), paired : BOOLEAN] /\ sync_sem' \in Nat
    BY <1>1, <1>2, EmptySeq
  <2> QED  BY <1>1, <1>3, <1>4, <1>7, <2>1 DEF IInv, TypeOK, OneAtATime
<1>11. OneStop'
  <2> DEFINE c == Count(proc.cmds, "stop")
             e == IF sm = "idle" THEN 0 ELSE 1
  <2>1. c + 1 + sync_sem = e
    BY <1>1 DEF IInv, OneStop, Stopping
  <2>2. c \in Nat /\ e \in Nat
    BY <1>2, CountIsNat DEF Procs
  <2> HIDE DEF c, e
  <2>3. c + 0 + (sync_sem + 1) = e
    BY <1>2, <2>1, <2>2
  <2> QED  BY <1>1, <1>3, <2>3 DEF OneStop, Stopping, c, e
<1>12. Reprocessed' /\ JobInHand'
  <2>1. Len(<<>>) = 0
    OBVIOUS
  <2>2. reproc'.frames = <<>> /\ queues'.ongoingPPQ = <<>>
    BY <1>1, <1>4
  <2>3. Reprocessed'
    BY <1>3, <2>1, <2>2 DEF Reprocessed
  <2>4. JobInHand'
    BY <1>1, <1>3, <1>4 DEF IInv, JobInHand
  <2> QED  BY <2>3, <2>4
<1>13. MadeOK'
  <2>1. Range(queues'.inputJpegQ) = {} /\ Range(queues'.ongoingJpegQ) = {}
    BY <1>4 DEF Range
  <2> QED  BY <2>1 DEF MadeOK
<1>14. (NumbersLast => Numbered)'
  <2>1. DOMAIN queues.ongoingJpegQ = {}
    BY <1>2
  <2>2. (NumbersLast => Numbered) /\ NoNewEnd
    BY <1>1, NoEvent DEF IInv
  <2> QED  BY <1>1, <2>1, <2>2, NumbersKept
<1> QED  BY <1>9, <1>10, <1>11, <1>12, <1>13, <1>14 DEF IInv

-----------------------------------------------------------------------------
(* The encoder and the reprocess channel                                   *)

LEMMA JobMgrStep ==
    ASSUME IInv, JobMgr
    PROVE  IInv'
<1> DEFINE t == encoder.todo
           u == encoder'.todo
           first == Head(encoder.todo)
<1>1. /\ t # <<>> /\ encoder.ongoing = <<>>
      /\ encoder' = [encoder EXCEPT !.todo = Tail(t), !.ongoing = <<first>>]
      /\ UNCHANGED <<use, m_state, sm, pictures, asked, evt_queue, failed, channel, home, queues,
                     proc, sync_sem, reproc, notifier>>
  BY DEF JobMgr, encoderOnly, apiVars
<1>2. encoder \in Encoders /\ t \in Seq(EncoderJobs)
  BY DEF IInv, TypeOK, Encoders
<1>3. /\ Tail(t) \in Seq(EncoderJobs) /\ first \in EncoderJobs /\ first = t[1]
      /\ Len(t) \in Nat \ {0} /\ DOMAIN t = 1 .. Len(t) /\ DOMAIN Tail(t) = 1 .. Len(t) - 1
      /\ \A i \in 1 .. Len(t) - 1 : Tail(t)[i] = t[i + 1]
      /\ Range(t) = {first} \cup Range(Tail(t))
  <2> DEFINE r == Tail(t)
  <2>1. /\ r \in Seq(EncoderJobs) /\ Len(r) = Len(t) - 1 /\ Head(t) = t[1] /\ Head(t) \in EncoderJobs
        /\ \A i \in 1 .. Len(r) : r[i] = t[i + 1]
        /\ Len(t) \in Nat \ {0} /\ DOMAIN t = 1 .. Len(t)
    BY <1>1, <1>2, HeadTailProperties, EmptySeq, LenProperties
  <2>2. Range(t) = {Head(t)} \cup Range(r)
    BY <1>1, <1>2, RangeTaken
  <2> HIDE DEF r
  <2>3. DOMAIN r = 1 .. Len(r)
    BY <2>1, LenProperties
  <2> QED  BY <2>1, <2>2, <2>3 DEF r
<1> HIDE DEF first
<1>4. /\ encoder' \in Encoders /\ u = Tail(t) /\ encoder'.ongoing = <<first>>
      /\ encoder'.hist = encoder.hist
  <2>1. <<first>> \in Seq(EncoderJobs)
    BY <1>3
  <2> QED  BY <1>1, <1>2, <1>3, <2>1 DEF Encoders
<1>5. TypeOK' /\ OneAtATime'
  BY <1>1, <1>4 DEF IInv, TypeOK, OneAtATime
<1>6. HeldOnce' /\ OneStop' /\ Reprocessed' /\ JobInHand' /\ MadeOK'
  BY <1>1, NoEvent, HeldFrom, SameReproc, SameJobs, SameMade DEF IInv, OneStop
<1>7. ASSUME Numbered PROVE Numbered'
  <2>1. Range(u) \cup Range(encoder'.ongoing) = Range(t) \cup Range(encoder.ongoing)
    <3>1. Range(<<first>>) = {first} /\ Range(encoder.ongoing) = {}
      BY <1>1 DEF Range
    <3> QED  BY <1>3, <1>4, <3>1
  <2>2. \A job \in Range(u) \cup Range(encoder'.ongoing) :
          /\ job.id \in 256 .. 255 + encoder.hist
          /\ \E i \in DOMAIN queues.ongoingJpegQ :
               Number(i) = job.id /\ queues.ongoingJpegQ[i].src = job.src
          /\ \A i \in DOMAIN evt_queue : evt_queue[i].type = "jpeg" => evt_queue[i].id # job.id
    BY <1>7, <2>1 DEF Numbered
  <2>3. \A i, j \in DOMAIN t : t[i].id = t[j].id => i = j
    BY <1>7 DEF Numbered
  <2> HIDE DEF t
  <2>4. \A i \in 1 .. Len(t) - 1 : i + 1 \in DOMAIN t /\ i + 1 # 1 /\ 1 \in DOMAIN t
    BY <1>3
  <2>5. \A i, j \in 1 .. Len(t) - 1 : t[i + 1].id = t[j + 1].id => i = j
    <3> SUFFICES ASSUME NEW i \in 1 .. Len(t) - 1, NEW j \in 1 .. Len(t) - 1,
                        t[i + 1].id = t[j + 1].id
                 PROVE  i = j
      OBVIOUS
    <3>1. i + 1 = j + 1
      BY <2>3, <2>4
    <3> QED  BY <3>1
  <2>6. \A i, j \in DOMAIN u : u[i].id = u[j].id => i = j
    <3>1. DOMAIN u = 1 .. Len(t) - 1 /\ \A i \in 1 .. Len(t) - 1 : u[i] = t[i + 1]
      BY <1>3, <1>4
    <3> HIDE DEF u
    <3> QED  BY <2>5, <3>1
  <2>7. \A i \in DOMAIN u : \A job \in Range(encoder'.ongoing) : u[i].id # job.id
    <3>1. Range(encoder'.ongoing) = {first}
      BY <1>4 DEF Range
    <3>2. \A i \in 1 .. Len(t) - 1 : t[i + 1].id # t[1].id
      BY <2>3, <2>4
    <3> QED  BY <1>3, <1>4, <3>1, <3>2
  <2>8. \A i : Number(i)' = Number(i)
    BY <1>1 DEF Number
  <2>9. \A i \in DOMAIN evt_queue : evt_queue[i].type = "jpeg" => evt_queue[i].id <= 255 + encoder.hist
    BY <1>7 DEF Numbered
  <2> QED  BY <1>1, <1>4, <2>2, <2>6, <2>7, <2>8, <2>9 DEF Numbered
<1> QED  BY <1>4, <1>5, <1>6, <1>7 DEF IInv, NumbersLast

LEMMA JobDoneStep ==
    ASSUME IInv, NEW ok \in BOOLEAN, JobDone(ok)
    PROVE  IInv'
<1> DEFINE x == encoder.ongoing[1]
           end == [type |-> "jpeg", id |-> encoder.ongoing[1].id, ok |-> ok]
<1>1. /\ encoder.ongoing # <<>> /\ evt_queue' = Append(evt_queue, end)
      /\ encoder' = [encoder EXCEPT !.ongoing = <<>>]
      /\ UNCHANGED <<use, m_state, sm, pictures, asked, failed, channel, home, queues,
                     proc, sync_sem, reproc, notifier>>
  BY DEF JobDone, encoderOnly, apiVars
<1>2. /\ encoder \in Encoders /\ encoder.ongoing \in Seq(EncoderJobs) /\ evt_queue \in Seq(Events)
  BY DEF IInv, TypeOK, Encoders
<1>3. x \in EncoderJobs /\ x \in Range(encoder.ongoing)
  <2>1. 1 \in DOMAIN encoder.ongoing
    BY <1>1, <1>2, EmptySeq, LenProperties
  <2> QED  BY <1>2, <2>1, ElementOfSeq, LenProperties DEF Range
<1>4. /\ end \in Events /\ end.type = "jpeg" /\ end.id = x.id /\ x.id \in Nat \ {0}
  BY <1>3 DEF Events, EncoderJobs
<1> HIDE DEF x, end
<1>5. /\ evt_queue' \in Seq(Events) /\ Len(evt_queue) \in Nat
      /\ DOMAIN evt_queue = 1 .. Len(evt_queue) /\ DOMAIN evt_queue' = 1 .. Len(evt_queue) + 1
      /\ \A i \in DOMAIN evt_queue : evt_queue'[i] = evt_queue[i]
      /\ evt_queue'[Len(evt_queue) + 1] = end
  BY <1>1, <1>2, <1>4, PlacesAppended
<1>6. \A i \in DOMAIN evt_queue' : evt_queue'[i] = end
                                     \/ \E j \in DOMAIN evt_queue : evt_queue'[i] = evt_queue[j]
  BY <1>5
<1>7. /\ encoder' \in Encoders /\ encoder'.todo = encoder.todo /\ encoder'.ongoing = <<>>
      /\ encoder'.hist = encoder.hist
  BY <1>1, <1>2, EmptySeq DEF Encoders
<1>8. TypeOK' /\ OneAtATime'
  BY <1>1, <1>5, <1>7 DEF IInv, TypeOK, OneAtATime
<1>9. HeldOnce' /\ OneStop' /\ Reprocessed' /\ MadeOK'
  BY <1>1, HeldFrom, SameReproc, SameMade DEF IInv, OneStop
<1>10. JobInHand'
  <2>1. \A i \in DOMAIN evt_queue' : evt_queue'[i].type = "jpeg" => evt_queue'[i].id # 0
    BY <1>4, <1>6 DEF IInv, JobInHand
  <2> QED  BY <1>1, <2>1 DEF IInv, JobInHand
<1>11. ASSUME Numbered PROVE Numbered'
  <2>1. x.id \in 256 .. 255 + encoder.hist /\ encoder.hist \in Nat
    BY <1>2, <1>3, <1>11 DEF Numbered, Encoders
  <2>2. \A i \in DOMAIN evt_queue' : evt_queue'[i].type = "jpeg" => evt_queue'[i].id <= 255 + encoder.hist
    BY <1>4, <1>6, <1>11, <2>1 DEF Numbered
  <2>3. ASSUME NEW job \in Range(encoder.todo)
        PROVE  /\ job.id \in 256 .. 255 + encoder.hist
               /\ \E i \in DOMAIN queues.ongoingJpegQ :
                    Number(i) = job.id /\ queues.ongoingJpegQ[i].src = job.src
               /\ \A i \in DOMAIN evt_queue' :
                    evt_queue'[i].type = "jpeg" => evt_queue'[i].id # job.id
    <3>1. job.id # x.id
      BY <1>3, <1>11 DEF Numbered, Range
    <3>2. /\ job.id \in 256 .. 255 + encoder.hist
          /\ \E i \in DOMAIN queues.ongoingJpegQ :
               Number(i) = job.id /\ queues.ongoingJpegQ[i].src = job.src
          /\ \A i \in DOMAIN evt_queue : evt_queue[i].type = "jpeg" => evt_queue[i].id # job.id
      BY <1>11 DEF Numbered
    <3>3. \A i \in DOMAIN evt_queue' : evt_queue'[i].type = "jpeg" => evt_queue'[i].id # job.id
      BY <1>4, <1>6, <3>1, <3>2
    <3> QED  BY <3>2, <3>3
  <2>4. \A i : Number(i)' = Number(i)
    BY <1>1 DEF Number
  <2>5. Range(encoder'.todo) = Range(encoder.todo) /\ Range(encoder'.ongoing) = {}
    BY <1>7 DEF Range
  <2>6. \A i, j \in DOMAIN encoder.todo : encoder.todo[i].id = encoder.todo[j].id => i = j
    BY <1>11 DEF Numbered
  <2> QED  BY <1>1, <1>7, <2>2, <2>3, <2>4, <2>5, <2>6 DEF Numbered
<1> QED  BY <1>7, <1>8, <1>9, <1>10, <1>11 DEF IInv, NumbersLast

\* The oldest frame that is being reprocessed is the oldest ongoing one.
LEMMA HeadsAgree ==
    ASSUME NEW S, NEW s \in Seq(S), s # <<>>, NEW e \in S
    PROVE  Head(Append(s, e)) = Head(s) /\ Tail(Append(s, e)) = Append(Tail(s), e)
<1> DEFINE n == Len(s)
           a == Append(s, e)
           t == Tail(a)
           b == Append(Tail(s), e)
<1>1. /\ n \in Nat \ {0} /\ Head(s) = s[1] /\ Tail(s) \in Seq(S) /\ Len(Tail(s)) = n - 1
      /\ \A i \in 1 .. n - 1 : Tail(s)[i] = s[i + 1]
  BY EmptySeq, HeadTailProperties
<1>2. a \in Seq(S) /\ Len(a) = n + 1 /\ a[n + 1] = e /\ \A i \in 1 .. n : a[i] = s[i]
  BY AppendProperties
<1>3. a # <<>>
  BY <1>1, <1>2
<1>4. b \in Seq(S) /\ Len(b) = n /\ b[n] = e /\ \A i \in 1 .. n - 1 : b[i] = s[i + 1]
  <2> DEFINE r == Tail(s)
  <2>1. r \in Seq(S) /\ Len(r) = n - 1 /\ \A i \in 1 .. n - 1 : r[i] = s[i + 1]
    BY <1>1
  <2> HIDE DEF r, n
  <2>2. /\ Append(r, e) \in Seq(S) /\ Len(Append(r, e)) = Len(r) + 1
        /\ Append(r, e)[Len(r) + 1] = e /\ \A i \in 1 .. Len(r) : Append(r, e)[i] = r[i]
    BY <2>1, AppendProperties
  <2>3. Len(r) + 1 = n
    BY <1>1, <2>1
  <2> QED  BY <2>1, <2>2, <2>3 DEF r
<1> HIDE DEF a, b, n
<1>5. /\ t \in Seq(S) /\ Len(t) = n /\ Head(a) = a[1] /\ \A i \in 1 .. n : t[i] = a[i + 1]
  <2>1. /\ t \in Seq(S) /\ Len(t) = Len(a) - 1 /\ Head(a) = a[1]
        /\ \A i \in 1 .. Len(t) : t[i] = a[i + 1]
    BY <1>2, <1>3, HeadTailProperties
  <2>2. Len(t) = n
    BY <1>1, <1>2, <2>1
  <2> QED  BY <2>1, <2>2
<1> HIDE DEF t
<1>6. ASSUME NEW i \in 1 .. n PROVE t[i] = b[i]
  <2>1. CASE i = n
    BY <1>1, <1>2, <1>4, <1>5, <2>1
  <2>2. CASE i \in 1 .. n - 1
    <3>1. i + 1 \in 1 .. n
      BY <1>1, <2>2
    <3> QED  BY <1>2, <1>4, <1>5, <2>2, <3>1
  <2> QED  BY <1>1, <2>1, <2>2
<1>7. t = b
  BY <1>4, <1>5, <1>6, SeqEqual
<1>8. Head(a) = Head(s)
  BY <1>1, <1>2, <1>5
<1> QED  BY <1>7, <1>8 DEF a, b, t

LEMMA ProcessPPDataStep ==
    ASSUME IInv, ProcessPPData
    PROVE  IInv'
<1> DEFINE pp == queues.ongoingPPQ
           f == Head(queues.ongoingPPQ)
           job == Job(Head(queues.ongoingPPQ), Head(reproc.frames))
           q == [queues EXCEPT !.ongoingPPQ = Tail(queues.ongoingPPQ)]
           one == IF proc.pc = "reprocess" THEN 1 ELSE 0
<1>1. /\ reproc.frames # <<>> /\ reproc' = [reproc EXCEPT !.frames = Tail(reproc.frames)]
      /\ UNCHANGED <<use, m_state, sm, pictures, asked, evt_queue, failed, channel, sync_sem,
                     encoder, notifier>>
      /\ pp # <<>> =>
           /\ proc' = Sent(proc, "do")
           /\ \/ /\ queues' = [queues EXCEPT !.ongoingPPQ = Tail(pp), !.inputJpegQ = Append(@, job)]
                 /\ UNCHANGED home
              \/ /\ queues' = [queues EXCEPT !.ongoingPPQ = Tail(pp), !.inputRawQ = Append(@, <<>>)]
                 /\ GiveBack(<<f>>)
  BY DEF ProcessPPData, apiVars
<1>2. /\ TypeOK /\ HeldOnce /\ proc \in Procs /\ queues \in Queues /\ pp \in Seq(Frames)
      /\ reproc \in [on : BOOLEAN, frames : Seq(Frames), paired : BOOLEAN]
  BY DEF IInv, TypeOK, Queues
<1>3. /\ reproc.frames \in Seq(Frames) /\ Len(reproc.frames) \in Nat \ {0} /\ Len(pp) \in Nat
      /\ Head(reproc.frames) \in Frames /\ Tail(reproc.frames) \in Seq(Frames)
      /\ Len(Tail(reproc.frames)) = Len(reproc.frames) - 1
      /\ Len(reproc.frames) + one <= Len(pp) /\ one \in Nat
  <2> DEFINE r == reproc.frames
  <2>1. r \in Seq(Frames) /\ r # <<>>
    BY <1>1, <1>2
  <2>2. /\ Len(r) \in Nat \ {0} /\ Head(r) \in Frames /\ Tail(r) \in Seq(Frames)
        /\ Len(Tail(r)) = Len(r) - 1
    <3> HIDE DEF r
    <3> QED  BY <2>1, HeadTailProperties, EmptySeq
  <2>3. Len(pp) \in Nat
    BY <1>2, LenProperties
  <2>4. Len(r) + one <= Len(pp)
    BY DEF IInv, Reprocessed
  <2> QED  BY <2>1, <2>2, <2>3, <2>4
<1>4. /\ pp # <<>> /\ reproc.on
      /\ Len(Tail(pp)) = Len(pp) - 1
      /\ reproc.paired =>
           /\ f = Head(reproc.frames)
           /\ IF proc.pc = "reprocess" THEN \E g \in Frames : Tail(pp) = Append(Tail(reproc.frames), g)
              ELSE Tail(pp) = Tail(reproc.frames)
  <2>1. pp # <<>>
    BY <1>2, <1>3, EmptySeq
  <2>2. Len(Tail(pp)) = Len(pp) - 1
    BY <1>2, <2>1, HeadTailProperties
  <2>3. reproc.on
    BY <1>1 DEF IInv, Reprocessed
  <2>4. CASE reproc.paired /\ proc.pc = "reprocess"
    <3>1. PICK g \in Frames : pp = Append(reproc.frames, g)
      BY <2>4 DEF IInv, Reprocessed
    <3>2. Head(pp) = Head(reproc.frames) /\ Tail(pp) = Append(Tail(reproc.frames), g)
      BY <1>1, <1>3, <3>1, HeadsAgree
    <3> QED  BY <2>1, <2>2, <2>3, <2>4, <3>2
  <2>5. CASE reproc.paired /\ proc.pc # "reprocess"
    <3>1. pp = reproc.frames
      BY <2>5 DEF IInv, Reprocessed
    <3> QED  BY <2>1, <2>2, <2>3, <2>5, <3>1
  <2> QED  BY <2>1, <2>2, <2>3, <2>4, <2>5
<1>5. /\ q \in Queues /\ f \in Frames
      /\ \A g : InQs(queues, g) = InQs(q, g) + OneIf(f = g)
  <2>1. queues \in Queues /\ queues.ongoingPPQ # <<>>
    BY <1>2, <1>4
  <2>2. q = [queues EXCEPT !.ongoingPPQ = Tail(queues.ongoingPPQ)]
    OBVIOUS
  <2> HIDE DEF q
  <2> QED  BY <2>1, <2>2, TakenFromOngoingPPQ
<1>6. /\ q.inputJpegQ = queues.inputJpegQ /\ q.ongoingPPQ = Tail(pp) /\ q.inputRawQ = queues.inputRawQ
      /\ q.ongoingJpegQ = queues.ongoingJpegQ /\ queues.inputJpegQ \in Seq(Jobs)
  BY <1>2 DEF Queues
<1>7. /\ job \in Jobs /\ job.src = f /\ job.id = 0
      /\ reproc.paired => job.made = job.src
  <2>1. Head(reproc.frames) \in Frames /\ f \in Frames
    BY <1>3, <1>5
  <2>2. job \in Jobs /\ job.src = f /\ job.made = Head(reproc.frames) /\ job.id = 0
    BY <2>1, JobIsNew
  <2> QED  BY <1>4, <2>2
<1>8. /\ proc' = Sent(proc, "do")
      /\ \/ queues' = [q EXCEPT !.inputJpegQ = Append(q.inputJpegQ, job)] /\ home' = home
         \/ queues' = [q EXCEPT !.inputRawQ = Append(q.inputRawQ, <<>>)] /\ GiveBack(<<f>>)
  BY <1>1, <1>2, <1>4 DEF Queues
<1> HIDE DEF q, f, job
<1>9. /\ proc' \in Procs /\ proc'.pc = proc.pc /\ proc'.job = proc.job
      /\ Count(proc'.cmds, "stop") = Count(proc.cmds, "stop") + 0
      /\ Count(proc.cmds, "stop") \in Nat
  BY <1>2, <1>8, ProcSent, CountIsNat DEF Commands, OneIf, Procs
<1>10. /\ reproc' \in [on : BOOLEAN, frames : Seq(Frames), paired : BOOLEAN] /\ reproc'.on = reproc.on
       /\ reproc'.frames = Tail(reproc.frames) /\ reproc'.paired = reproc.paired
  BY <1>1, <1>2, <1>3
<1>11. /\ queues' \in Queues /\ home' \in [Frames -> Nat] /\ HeldOnce'
       /\ queues'.ongoingPPQ = Tail(pp) /\ queues'.ongoingJpegQ = queues.ongoingJpegQ
       /\ queues'.inputJpegQ = queues.inputJpegQ \/ queues'.inputJpegQ = Append(queues.inputJpegQ, job)
  <2>1. \A g \in Frames :
          /\ Count(channel'.cb, g) = Count(channel.cb, g)
          /\ Count(HandOf(proc'), g) = Count(HandOf(proc), g)
          /\ NotifierHas(notifier', g) = NotifierHas(notifier, g)
    BY <1>1, <1>9 DEF HandOf
  <2>2. CASE queues' = [q EXCEPT !.inputJpegQ = Append(q.inputJpegQ, job)] /\ home' = home
    <3>1. q \in Queues /\ job \in Jobs
      BY <1>5, <1>7
    <3>2. queues' \in Queues /\ \A g : InQs(queues', g) = InQs(q, g) + OneIf(job.src = g)
      BY <2>2, <3>1, AddedToInputJpegQ
    <3>3. ASSUME NEW g PROVE InQs(queues', g) = InQs(queues, g)
      BY <1>5, <1>7, <3>2
    <3>4. HeldOnce'
      BY <1>2, <2>1, <2>2, <3>3, HeldFrom
    <3>5. /\ queues'.ongoingPPQ = q.ongoingPPQ /\ queues'.ongoingJpegQ = q.ongoingJpegQ
          /\ queues'.inputJpegQ = Append(q.inputJpegQ, job)
      BY <2>2, <3>1 DEF Queues
    <3> QED  BY <1>2, <1>6, <2>2, <3>2, <3>4, <3>5 DEF TypeOK
  <2>3. CASE queues' = [q EXCEPT !.inputRawQ = Append(q.inputRawQ, <<>>)] /\ GiveBack(<<f>>)
    <3> DEFINE cb == <<>>
    <3>1. q \in Queues /\ cb \in Callbacks
      BY <1>5 DEF Callbacks
    <3>2. \A g : OneIf(cb = <<g>>) = 0 /\ InQs(q, g) \in Nat
      BY <3>1, QueueCounts DEF OneIf
    <3>3. /\ queues'.ongoingPPQ = q.ongoingPPQ /\ queues'.ongoingJpegQ = q.ongoingJpegQ
          /\ queues'.inputJpegQ = q.inputJpegQ
      BY <2>3, <3>1 DEF Queues
    <3>4. queues' = [q EXCEPT !.inputRawQ = Append(q.inputRawQ, cb)]
      BY <2>3
    <3> HIDE DEF cb
    <3>5. queues' \in Queues /\ \A g : InQs(queues', g) = InQs(q, g) + OneIf(cb = <<g>>)
      BY <3>1, <3>4, AddedToInputRawQ
    <3>6. \A g : InQs(queues', g) = InQs(q, g)
      BY <3>2, <3>5
    <3>7. \A g : InQs(queues, g) = InQs(queues', g) + OneIf(f = g)
      BY <1>5, <3>6
    <3>8. home' \in [Frames -> Nat] /\ HeldOnce'
      BY <1>2, <1>5, <2>1, <2>3, <3>5, <3>7, OneReturned
    <3> QED  BY <1>6, <3>3, <3>5, <3>8
  <2> QED  BY <1>8, <2>2, <2>3
<1>12. TypeOK' /\ OneAtATime'
  BY <1>1, <1>9, <1>10, <1>11 DEF IInv, TypeOK, OneAtATime
<1>13. Reprocessed'
  <2>1. reproc'.paired =>
          IF proc'.pc = "reprocess" THEN \E g \in Frames : queues'.ongoingPPQ = Append(reproc'.frames, g)
          ELSE queues'.ongoingPPQ = reproc'.frames
    BY <1>4, <1>9, <1>10, <1>11
  <2>2. Len(reproc'.frames) + one <= Len(queues'.ongoingPPQ)
    <3> DEFINE a == Len(reproc.frames)
               b == Len(pp)
    <3>1. a \in Nat \ {0} /\ b \in Nat /\ one \in Nat /\ a + one <= b
      BY <1>3
    <3>2. Len(reproc'.frames) = a - 1
      BY <1>3, <1>10
    <3>3. Len(queues'.ongoingPPQ) = b - 1
      BY <1>4, <1>11
    <3> HIDE DEF a, b, one
    <3> QED  BY <3>1, <3>2, <3>3
  <2>3. reproc.on /\ reproc'.on
    BY <1>4, <1>10
  <2>4. one = IF proc'.pc = "reprocess" THEN 1 ELSE 0
    BY <1>9
  <2> QED  BY <2>1, <2>2, <2>3, <2>4 DEF Reprocessed
<1>14. MadeOK'
  <2>1. Range(queues'.inputJpegQ) \subseteq Range(queues.inputJpegQ) \cup {job}
    <3>1. CASE queues'.inputJpegQ = queues.inputJpegQ
      BY <3>1
    <3>2. CASE queues'.inputJpegQ = Append(queues.inputJpegQ, job)
      BY <1>6, <1>7, <3>2, RangeAppended
    <3> QED  BY <1>11, <3>1, <3>2
  <2>2. MadeOK /\ reproc'.paired = reproc.paired
    BY <1>10 DEF IInv
  <2>3. \A j \in Range(queues'.inputJpegQ) : (reproc.paired => j.made = j.src) /\ j.id = 0
    BY <1>7, <2>1, <2>2 DEF MadeOK
  <2>4. \A j \in Range(queues'.ongoingJpegQ) : reproc.paired => j.made = j.src
    BY <1>11, <2>2 DEF MadeOK
  <2> QED  BY <2>2, <2>3, <2>4 DEF MadeOK
<1>15. OneStop'
  <2>1. Count(proc'.cmds, "stop") = Count(proc.cmds, "stop")
    BY <1>9
  <2> QED  BY <1>1, <1>9, <1>10, <2>1 DEF IInv, OneStop
<1>16. JobInHand' /\ (NumbersLast => Numbered)'
  BY <1>1, <1>9, <1>11, NoEvent, SameJobs, SameNumbers DEF IInv
<1> QED  BY <1>11, <1>12, <1>13, <1>14, <1>15, <1>16 DEF IInv

-----------------------------------------------------------------------------
(* The notifier                                                            *)

\* A step of the notifier: only it, the channel and the events change.
LEMMA OnlyNotifier ==
    ASSUME IInv, notifier' \in Notifiers, home' \in [Frames -> Nat], evt_queue' \in Seq(Events),
           NoNewEnd, notifier'.pc = "idle" => notifier'.cb = <<>>,
           UNCHANGED <<use, m_state, sm, pictures, asked, failed, channel, queues, proc, sync_sem,
                       encoder, reproc>>,
           \A f \in Frames : home'[f] + NotifierHas(notifier', f) = home[f] + NotifierHas(notifier, f)
    PROVE  IInv'
<1>1. TypeOK'
  BY DEF IInv, TypeOK
<1>2. OneAtATime'
  BY DEF IInv, OneAtATime
<1>3. HeldOnce'
  <2>1. ASSUME NEW g \in Frames
        PROVE  home'[g] + InQs(queues', g) + Count(HandOf(proc'), g) + NotifierHas(notifier', g)
                 = home[g] + InQs(queues, g) + Count(HandOf(proc), g) + NotifierHas(notifier, g)
    <3> DEFINE h == home[g]
               h2 == home'[g]
               a == InQs(queues, g)
               c == Count(HandOf(proc), g)
               z == NotifierHas(notifier, g)
               z2 == NotifierHas(notifier', g)
    <3>1. h \in Nat /\ a \in Nat /\ c \in Nat /\ z \in Nat
      BY PlacesAreNat DEF IInv
    <3>2. h2 \in Nat /\ z2 \in Nat /\ h2 + z2 = h + z
      BY NotifierCounts
    <3>3. InQs(queues', g) = a /\ Count(HandOf(proc'), g) = c
      OBVIOUS
    <3> HIDE DEF h, h2, a, c, z, z2
    <3>4. h2 + a + c + z2 = h + a + c + z
      BY <3>1, <3>2
    <3> QED  BY <3>3, <3>4 DEF h, h2, a, c, z, z2
  <2> QED  BY <1>1, <2>1, HeldKept DEF IInv
<1>4. OneStop' /\ Reprocessed' /\ JobInHand' /\ MadeOK' /\ (NumbersLast => Numbered)'
  BY SameReproc, SameJobs, SameMade, SameNumbers DEF IInv, OneStop
<1> QED  BY <1>1, <1>2, <1>3, <1>4 DEF IInv

LEMMA NotifierStartStep ==
    ASSUME IInv, NotifierStart
    PROVE  IInv'
<1> DEFINE n == Received(notifier)
<1>1. /\ notifier.pc = "idle" /\ notifier.cmds # <<>>
      /\ UNCHANGED <<use, m_state, sm, pictures, asked, failed, channel, queues, proc, sync_sem,
                     encoder, reproc, evt_queue, home>>
      /\ notifier' = [n EXCEPT !.active = TRUE, !.expected = asked, !.rcvd = 0]
  BY DEF NotifierStart, NotifierTakes, apiVars
<1>2. /\ notifier \in Notifiers /\ asked \in Nat /\ home \in [Frames -> Nat]
      /\ evt_queue \in Seq(Events) /\ notifier.cb = <<>>
  BY <1>1 DEF IInv, TypeOK, OneAtATime
<1>3. n \in Notifiers /\ n.pc = notifier.pc /\ n.cb = notifier.cb /\ n.dataQ = notifier.dataQ
  BY <1>1, <1>2, NotifierReceived
<1> HIDE DEF n
<1>4. notifier' \in Notifiers /\ notifier'.cb = n.cb /\ notifier'.dataQ = n.dataQ
  BY <1>1, <1>2, <1>3 DEF Notifiers
<1>5. \A f \in Frames : home'[f] + NotifierHas(notifier', f) = home[f] + NotifierHas(notifier, f)
  BY <1>1, <1>3, <1>4 DEF NotifierHas
<1> QED  BY <1>1, <1>2, <1>3, <1>4, <1>5, NoEvent, OnlyNotifier

LEMMA NotifierStopStep ==
    ASSUME IInv, NotifierStop
    PROVE  IInv'
<1> DEFINE n == Received(notifier)
<1>1. /\ notifier.pc = "idle" /\ notifier.cmds # <<>>
      /\ UNCHANGED <<use, m_state, sm, pictures, asked, failed, channel, queues, proc, sync_sem,
                     encoder, reproc, evt_queue>>
      /\ home' = [f \in Frames |-> home[f] + Count(notifier.dataQ, <<f>>)]
      /\ notifier' = [n EXCEPT !.active = FALSE, !.expected = 0, !.rcvd = 0, !.dataQ = <<>>]
  BY DEF NotifierStop, NotifierTakes, FlushCallbacks, apiVars
<1>2. /\ notifier \in Notifiers /\ home \in [Frames -> Nat]
      /\ evt_queue \in Seq(Events) /\ notifier.cb = <<>>
  BY <1>1 DEF IInv, TypeOK, OneAtATime
<1>3. n \in Notifiers /\ n.pc = notifier.pc /\ n.cb = notifier.cb /\ n.dataQ = notifier.dataQ
  BY <1>1, <1>2, NotifierReceived
<1> HIDE DEF n
<1>4. notifier' \in Notifiers /\ notifier'.cb = n.cb /\ notifier'.dataQ = <<>>
  BY <1>1, <1>3, EmptySeq DEF Notifiers
<1>5. ASSUME NEW f \in Frames
      PROVE  /\ home'[f] \in Nat
             /\ home'[f] + NotifierHas(notifier', f) = home[f] + NotifierHas(notifier, f)
  <2> DEFINE h == home[f]
             d == Count(notifier.dataQ, <<f>>)
             c == Count(notifier.cb, f)
  <2>1. h \in Nat /\ d \in Nat /\ c \in Nat /\ home'[f] = h + d
    BY <1>1, <1>2, NotifierCounts
  <2>2. NotifierHas(notifier, f) = d + c /\ NotifierHas(notifier', f) = 0 + c
    BY <1>3, <1>4, CountNone DEF NotifierHas
  <2> HIDE DEF h, d, c
  <2>3. h + d \in Nat /\ (h + d) + (0 + c) = h + (d + c)
    BY <2>1
  <2> QED  BY <2>1, <2>2, <2>3 DEF h
<1>6. home' \in [Frames -> Nat]
  BY <1>1, <1>5
<1> QED  BY <1>1, <1>2, <1>3, <1>4, <1>5, <1>6, NoEvent, OnlyNotifier

LEMMA NotifierDoStep ==
    ASSUME IInv, NotifierDo
    PROVE  IInv'
<1> DEFINE m == Received(notifier)
           n == [Received(notifier) EXCEPT !.dataQ = Tail(notifier.dataQ)]
           cb == Head(notifier.dataQ)
           done == [type |-> "done"]
<1>1. /\ notifier.pc = "idle" /\ notifier.cmds # <<>>
      /\ UNCHANGED <<use, m_state, sm, pictures, asked, failed, channel, queues, proc, sync_sem,
                     encoder, reproc>>
  BY DEF NotifierDo, NotifierTakes, apiVars
<1>2. /\ notifier \in Notifiers /\ home \in [Frames -> Nat]
      /\ evt_queue \in Seq(Events) /\ notifier.cb = <<>> /\ notifier.dataQ \in Seq(Callbacks)
  BY <1>1 DEF IInv, TypeOK, OneAtATime, Notifiers
<1>3. m \in Notifiers /\ m.pc = notifier.pc /\ m.cb = notifier.cb /\ m.dataQ = notifier.dataQ
  BY <1>1, <1>2, NotifierReceived
<1>4. \/ notifier' = m /\ UNCHANGED <<evt_queue, home>>
      \/ /\ notifier.dataQ # <<>>
         /\ notifier' = n /\ GiveBack(cb) /\ UNCHANGED evt_queue
      \/ /\ notifier.dataQ # <<>>
         /\ \E pc \in {"wait", "deliver"} :
              notifier' = [n EXCEPT !.rcvd = @ + 1, !.cb = cb, !.pc = pc]
         /\ evt_queue' \in {evt_queue, Append(evt_queue, done)}
         /\ UNCHANGED home
  <2>1. CASE notifier.dataQ = <<>>
    BY <1>3, <2>1 DEF NotifierDo
  <2>2. CASE notifier.dataQ # <<>> /\ ~ notifier.active
    BY <1>3, <2>2 DEF NotifierDo
  <2>3. CASE notifier.dataQ # <<>> /\ notifier.active
    <3> DEFINE last == notifier.rcvd + 1 = notifier.expected
    <3>1. /\ notifier' = [[m EXCEPT !.dataQ = Tail(@)] EXCEPT !.rcvd = @ + 1, !.cb = cb,
                            !.pc = IF last THEN "wait" ELSE "deliver"]
          /\ evt_queue' = IF last THEN Append(evt_queue, done) ELSE evt_queue
          /\ UNCHANGED home
      BY <2>3 DEF NotifierDo
    <3>2. [m EXCEPT !.dataQ = Tail(@)] = n
      BY <1>3
    <3> HIDE DEF last, n, m, cb, done
    <3>3. /\ notifier' = [n EXCEPT !.rcvd = @ + 1, !.cb = cb, !.pc = IF last THEN "wait" ELSE "deliver"]
      BY <3>1, <3>2
    <3> QED  BY <2>3, <3>1, <3>3
  <2> QED  BY <2>1, <2>2, <2>3
<1> HIDE DEF m
<1>5. CASE notifier' = m /\ UNCHANGED <<evt_queue, home>>
  <2>1. \A f \in Frames : home'[f] + NotifierHas(notifier', f) = home[f] + NotifierHas(notifier, f)
    BY <1>3, <1>5 DEF NotifierHas
  <2> QED  BY <1>1, <1>2, <1>3, <1>5, <2>1, NoEvent, OnlyNotifier
<1>6. ASSUME notifier.dataQ # <<>>
      PROVE  /\ n \in Notifiers /\ n.pc = notifier.pc /\ n.cb = <<>> /\ cb \in Callbacks
             /\ n.dataQ = Tail(notifier.dataQ) /\ cb \in Seq(Frames)
             /\ \A f \in Frames : Count(notifier.dataQ, <<f>>) = Count(n.dataQ, <<f>>) + Count(cb, f)
  <2>1. Tail(notifier.dataQ) \in Seq(Callbacks) /\ cb \in Callbacks
    BY <1>2, <1>6, HeadTailProperties
  <2>2. n = [m EXCEPT !.dataQ = Tail(notifier.dataQ)]
    BY DEF m
  <2>3. n \in Notifiers /\ n.pc = m.pc /\ n.cb = m.cb /\ n.dataQ = Tail(notifier.dataQ)
    <3> DEFINE r == Tail(notifier.dataQ)
    <3>1. n = [m EXCEPT !.dataQ = r] /\ r \in Seq(Callbacks)
      BY <2>1, <2>2
    <3> HIDE DEF n, r
    <3>2. n \in Notifiers /\ n.pc = m.pc /\ n.cb = m.cb /\ n.dataQ = r
      BY <1>3, <3>1 DEF Notifiers
    <3> QED  BY <3>2 DEF r
  <2> HIDE DEF n, cb
  <2>4. \A f \in Frames : OneIf(cb = <<f>>) = Count(cb, f)
    <3>1. CASE cb = <<>>
      BY <3>1, CountNone DEF OneIf
    <3>2. CASE cb # <<>>
      <4>1. PICK g \in Frames : cb = <<g>>
        BY <2>1, <3>2 DEF Callbacks
      <4>2. \A f : Count(<<g>>, f) = OneIf(g = f)
        BY CountOne
      <4>3. \A f : (<<g>> = <<f>>) <=> (g = f)
        OBVIOUS
      <4> QED  BY <4>1, <4>2, <4>3 DEF OneIf
    <3> QED  BY <3>1, <3>2
  <2>5. \A f : Count(notifier.dataQ, <<f>>) = Count(Tail(notifier.dataQ), <<f>>) + OneIf(cb = <<f>>)
    BY <1>2, <1>6, CountTaken DEF cb
  <2>6. cb \in Seq(Frames)
    BY <2>1, CallbackFrames
  <2> QED  BY <1>2, <1>3, <2>1, <2>3, <2>4, <2>5, <2>6
<1> HIDE DEF n, cb
<1>7. CASE notifier.dataQ # <<>> /\ notifier' = n /\ GiveBack(cb) /\ UNCHANGED evt_queue
  <2>1. /\ home' \in [Frames -> Nat]
        /\ \A f \in Frames : home'[f] = home[f] + Count(cb, f) /\ Count(cb, f) \in Nat
    BY <1>6, <1>7, Returned DEF IInv
  <2>2. ASSUME NEW f \in Frames
        PROVE  home'[f] + NotifierHas(notifier', f) = home[f] + NotifierHas(notifier, f)
    <3> DEFINE h == home[f]
               d == Count(n.dataQ, <<f>>)
               c == Count(cb, f)
    <3>1. h \in Nat /\ d \in Nat /\ c \in Nat /\ home'[f] = h + c
      BY <1>2, <1>6, <1>7, <2>1, NotifierCounts
    <3>2. NotifierHas(notifier, f) = (d + c) + 0 /\ NotifierHas(notifier', f) = d + 0
      BY <1>2, <1>6, <1>7, CountNone DEF NotifierHas
    <3> HIDE DEF h, d, c
    <3>3. (h + c) + (d + 0) = h + ((d + c) + 0)
      BY <3>1
    <3> QED  BY <3>1, <3>2, <3>3 DEF h
  <2> QED  BY <1>1, <1>2, <1>6, <1>7, <2>1, <2>2, NoEvent, OnlyNotifier
<1>8. CASE /\ notifier.dataQ # <<>>
           /\ \E pc \in {"wait", "deliver"} :
                notifier' = [n EXCEPT !.rcvd = @ + 1, !.cb = cb, !.pc = pc]
           /\ evt_queue' \in {evt_queue, Append(evt_queue, done)}
           /\ UNCHANGED home
  <2>1. PICK pc \in {"wait", "deliver"} : notifier' = [n EXCEPT !.rcvd = @ + 1, !.cb = cb, !.pc = pc]
    BY <1>8
  <2>2. /\ notifier' \in Notifiers /\ notifier'.pc = pc /\ notifier'.cb = cb
        /\ notifier'.dataQ = n.dataQ
    <3>1. n.rcvd + 1 \in Nat
      BY <1>6, <1>8 DEF Notifiers
    <3>2. cb \in Callbacks /\ n \in Notifiers
      BY <1>6, <1>8
    <3> QED  BY <2>1, <3>1, <3>2 DEF Notifiers
  <2>3. evt_queue' \in Seq(Events) /\ NoNewEnd
    <3>1. CASE evt_queue' = evt_queue
      BY <1>2, <3>1, NoEvent
    <3>2. CASE evt_queue' = Append(evt_queue, done)
      <4>1. done \in Events /\ done.type # "jpeg"
        BY DEF Events
      <4> HIDE DEF done
      <4>2. /\ evt_queue' \in Seq(Events) /\ Len(evt_queue) \in Nat
            /\ DOMAIN evt_queue = 1 .. Len(evt_queue) /\ DOMAIN evt_queue' = 1 .. Len(evt_queue) + 1
            /\ \A i \in DOMAIN evt_queue : evt_queue'[i] = evt_queue[i]
            /\ evt_queue'[Len(evt_queue) + 1] = done
        BY <1>2, <3>2, <4>1, PlacesAppended
      <4>3. \A i \in DOMAIN evt_queue' : evt_queue'[i] = done
                                           \/ \E j \in DOMAIN evt_queue : evt_queue[j] = evt_queue'[i]
        BY <4>2
      <4> QED  BY <4>1, <4>2, <4>3 DEF NoNewEnd
    <3> QED  BY <1>8, <3>1, <3>2
  <2>4. ASSUME NEW f \in Frames
        PROVE  home'[f] + NotifierHas(notifier', f) = home[f] + NotifierHas(notifier, f)
    <3> DEFINE h == home[f]
               d == Count(n.dataQ, <<f>>)
               c == Count(cb, f)
    <3>1. d \in Nat /\ c \in Nat
      BY <1>6, <1>8, NotifierCounts, CountIsNat
    <3>2. NotifierHas(notifier, f) = (d + c) + 0 /\ NotifierHas(notifier', f) = d + c
      BY <1>2, <1>6, <1>8, <2>2, CountNone DEF NotifierHas
    <3> HIDE DEF d, c
    <3>3. (d + c) + 0 = d + c
      BY <3>1
    <3> QED  BY <1>8, <3>2, <3>3
  <2> QED  BY <1>1, <1>2, <1>8, <2>2, <2>3, <2>4, OnlyNotifier
<1> QED  BY <1>4, <1>5, <1>7, <1>8

LEMMA DeliverStep ==
    ASSUME IInv, Deliver
    PROVE  IInv'
<1> DEFINE cb == notifier.cb
<1>1. /\ notifier.pc = "deliver" /\ GiveBack(cb)
      /\ notifier' = [notifier EXCEPT !.pc = "idle", !.cb = <<>>]
      /\ UNCHANGED <<use, m_state, sm, pictures, asked, failed, channel, queues, proc, sync_sem,
                     encoder, reproc, evt_queue>>
  BY DEF Deliver, apiVars
<1>2. /\ notifier \in Notifiers /\ home \in [Frames -> Nat] /\ evt_queue \in Seq(Events)
      /\ cb \in Seq(Frames) /\ TypeOK
  BY CallbackFrames DEF IInv, TypeOK, Notifiers
<1>3. /\ notifier' \in Notifiers /\ notifier'.cb = <<>> /\ notifier'.dataQ = notifier.dataQ
  BY <1>1, <1>2 DEF Notifiers, Callbacks
<1>4. /\ home' \in [Frames -> Nat]
      /\ \A f \in Frames : home'[f] = home[f] + Count(cb, f) /\ Count(cb, f) \in Nat
  <2> HIDE DEF cb
  <2> QED  BY <1>1, <1>2, Returned
<1>5. ASSUME NEW f \in Frames
      PROVE  home'[f] + NotifierHas(notifier', f) = home[f] + NotifierHas(notifier, f)
  <2> DEFINE h == home[f]
             d == Count(notifier.dataQ, <<f>>)
             c == Count(cb, f)
  <2>1. h \in Nat /\ d \in Nat /\ c \in Nat /\ home'[f] = h + c
    BY <1>2, <1>4, NotifierCounts
  <2>2. NotifierHas(notifier, f) = d + c /\ NotifierHas(notifier', f) = d + 0
    BY <1>3, CountNone DEF NotifierHas
  <2> HIDE DEF h, d, c
  <2>3. (h + c) + (d + 0) = h + (d + c)
    BY <2>1
  <2> QED  BY <2>1, <2>2, <2>3 DEF h
<1> QED  BY <1>1, <1>2, <1>3, <1>4, <1>5, NoEvent, OnlyNotifier

-----------------------------------------------------------------------------
(* The invariant                                                           *)

LEMMA Start ==
    ASSUME Init
    PROVE  IInv
<1>1. <<>> \in Seq(Frames) /\ <<>> \in Seq(Jobs) /\ <<>> \in Seq(EncoderJobs)
      /\ <<>> \in Seq(Events) /\ <<>> \in Seq(Commands) /\ <<>> \in Seq(Callbacks)
  BY EmptySeq
<1>2. queues \in Queues /\ proc \in Procs
  BY <1>1 DEF Init, NoQueues, Queues, Procs
<1>3. encoder \in Encoders /\ notifier \in Notifiers
  BY <1>1 DEF Init, Encoders, Notifiers, Callbacks
<1>4. TypeOK
  <2>1. failed \in BOOLEAN
    BY DEF Init
  <2> QED  BY <1>1, <1>2, <1>3, <2>1 DEF Init, TypeOK
<1>5. OneAtATime /\ Reprocessed /\ JobInHand
  BY DEF Init, NoQueues, OneAtATime, Reprocessed, JobInHand
<1>6. OneStop
  <2>1. Count(proc.cmds, "stop") = 0
    BY CountNone DEF Init
  <2> QED  BY <2>1 DEF Init, OneStop, Stopping
<1>7. MadeOK
  BY DEF Init, NoQueues, MadeOK, Range
<1>8. HeldOnce
  <2> SUFFICES ASSUME NEW f \in Frames
               PROVE  home[f] + Count(channel.cb, f) + InQueues(f) + Count(InHand, f)
                        + InNotifier(f) = 1
    BY DEF HeldOnce
  <2>1. home[f] = 1 /\ Count(channel.cb, f) = 0 /\ Count(InHand, f) = 0
    BY CountNone DEF Init, InHand
  <2>2. InQueues(f) = 0 + 0 + 0 + 0 + 0
    BY CountNone, SourcesNone DEF Init, NoQueues, InQueues
  <2>3. InNotifier(f) = 0 + 0
    BY CountNone DEF Init, InNotifier
  <2> QED  BY <2>1, <2>2, <2>3
<1>9. Numbered
  BY DEF Init, NoQueues, Numbered, Range
<1> QED  BY <1>4, <1>5, <1>6, <1>7, <1>8, <1>9 DEF IInv

LEMMA Step ==
    ASSUME IInv, [Next]_vars
    PROVE  IInv'
<1>1. CASE Application
  BY <1>1, CancelPictureStep, TakePictureStep DEF Application
<1>2. CASE StateMachine
  BY <1>2, JpegEventStep, SnapshotDoneStep, StoppedStep DEF StateMachine
<1>3. CASE Channel
  BY <1>3, ZslChannelCbStep, GiveStep DEF Channel
<1>4. CASE DataProc
  BY <1>4, ProcStartStep, ProcReturnStep, ProcDoStep, EncodeDataStep, StoreJobIdStep, ProcRawStep,
     ProcPPStep, DoReprocessStep, ProcStopStep, AbortNextStep, ReleaseAbortedStep,
     DestroySessionStep, FlushQueuesStep DEF DataProc
<1>5. CASE Hardware
  BY <1>5, JobMgrStep, ProcessPPDataStep, JobDoneStep DEF Hardware
<1>6. CASE Notifier
  BY <1>6, NotifierStartStep, NotifierStopStep, NotifierDoStep, DeliverStep DEF Notifier
<1>7. CASE UNCHANGED vars
  <2>1. UNCHANGED <<use, m_state, sm, pictures, asked, evt_queue, failed, channel, home, queues,
                    proc, sync_sem, encoder, reproc, notifier>>
    BY <1>7 DEF vars, apiVars
  <2>2. TypeOK' /\ OneAtATime' /\ OneStop' /\ Reprocessed'
    BY <2>1 DEF IInv, TypeOK, OneAtATime, OneStop, Reprocessed
  <2>3. JobInHand' /\ MadeOK' /\ (NumbersLast => Numbered)'
    BY <2>1, NoEvent, SameJobs, SameMade, SameNumbers DEF IInv
  <2>4. HeldOnce'
    BY <2>1, HeldFrom DEF IInv
  <2> QED  BY <2>2, <2>3, <2>4 DEF IInv
<1> QED  BY <1>1, <1>2, <1>3, <1>4, <1>5, <1>6, <1>7 DEF Next

\* The inductive invariant: the types, one stop at a time, which job is in
\* the thread's hands, where the frames are and which numbers are used
\* (dataProcessRoutine, mm_jpeg.c, cbNotifyRoutine).
THEOREM Invariance == Spec => []IInv
<1>1. Init => IInv
  BY Start
<1>2. IInv /\ [Next]_vars => IInv'
  BY Step
<1> QED  BY <1>1, <1>2, PTL DEF Spec

\* A frame is at one place, however many there are and whatever fails: it
\* goes back to the ZSL channel once (releaseSuperBuf, releaseJpegJobData,
\* releaseNotifyData).
THEOREM FramesHeldOnce == Spec => []HeldOnce
<1>1. IInv => HeldOnce
  BY DEF IInv
<1> QED  BY <1>1, Invariance, PTL

\* As long as the job numbers of mm_jpeg_start_job have not come round, the
\* encoder works only on frames that an ongoing job holds, and on images
\* made from them.
THEOREM EncoderHolds == Spec => [](NumbersLast => EncoderReadsHeld)
<1>1. ASSUME IInv, NumbersLast PROVE EncoderReadsHeld
  <2>1. Numbered /\ MadeOK /\ queues.ongoingJpegQ \in Seq(Jobs)
    BY <1>1 DEF IInv, TypeOK, Queues
  <2>2. ASSUME NEW job \in Range(encoder.todo) \cup Range(encoder.ongoing)
        PROVE  job.src \in Range(Sources(queues.ongoingJpegQ))
    <3>1. PICK i \in DOMAIN queues.ongoingJpegQ : queues.ongoingJpegQ[i].src = job.src
      BY <2>1 DEF Numbered
    <3>2. DOMAIN Sources(queues.ongoingJpegQ) = DOMAIN queues.ongoingJpegQ
          /\ Sources(queues.ongoingJpegQ)[i] = queues.ongoingJpegQ[i].src
      BY DEF Sources
    <3> QED  BY <3>1, <3>2 DEF Range
  <2> QED  BY <2>1, <2>2 DEF EncoderReadsHeld, MadeOK
<1>2. IInv => (NumbersLast => EncoderReadsHeld)
  BY <1>1
<1> QED  BY <1>2, Invariance, PTL

=============================================================================
