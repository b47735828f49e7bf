--------------------------- MODULE ManifestProofs ----------------------------
(* Theorems about the two parsers for every limit, lead and duration, and    *)
(* for every way the source writes its timeline.                             *)
EXTENDS Manifest, FiniteSetTheorems, SequenceTheorems, WellFoundedInduction, TLAPS

-----------------------------------------------------------------------------
(* A nonempty set of naturals has a least element: what the inductions over  *)
(* the entries of a timeline rest on.                                        *)
LEMMA LeastNat ==
  ASSUME NEW S \in SUBSET Nat, S # {}
  PROVE  \E m \in S : \A n \in S : m <= n
<1> DEFINE R == {p \in Nat \X Nat : p[1] < p[2]}
<1>1. IsWellFoundedOn(R, Nat)
  BY NatLessThanWellFounded DEF OpToRel
<1>2. PICK m \in S : \A n \in S : <<n, m>> \notin R
  <2> HIDE DEF R
  <2> QED
    BY <1>1, WFMin
<1>3. ASSUME NEW n \in S
      PROVE  m <= n
  <2>1. n \in Nat /\ m \in Nat /\ ~(n < m)
    BY <1>2
  <2> QED
    BY <2>1
<1> QED
  BY <1>3

(* Products, as far as sums of equal durations need them.                    *)
LEMMA Distributes ==
  ASSUME NEW i \in Int, NEW j \in Int, NEW d \in Int
  PROVE  i * d \in Int /\ (i + j) * d = i * d + j * d /\ 1 * d = d /\ 0 * d = 0
OBVIOUS

LEMMA Increases ==
  ASSUME NEW i \in Int, NEW j \in Int, i < j, NEW d \in Nat \ {0}
  PROVE  i * d < j * d
<1>1. j * d = i * d + (j - i) * d
  BY Distributes
<1>2. (j - i) * d >= 1
  OBVIOUS
<1> QED
  BY <1>1, <1>2, Distributes

(* The numbers of an interval.                                               *)
LEMMA IntervalSize ==
  ASSUME NEW a \in Int, NEW n \in Nat
  PROVE  IsFiniteSet(a + 1 .. a + n) /\ Cardinality(a + 1 .. a + n) = n
<1>1. a + 1 \in Int /\ a + n \in Int
  OBVIOUS
<1>2. /\ IsFiniteSet(a + 1 .. a + n)
      /\ Cardinality(a + 1 .. a + n) = IF a + 1 > a + n THEN 0 ELSE (a + n) - (a + 1) + 1
  BY <1>1, FS_Interval
<1> QED
  BY <1>2

-----------------------------------------------------------------------------
(* The timeline says when each segment begins: entry k stands for the        *)
(* segments from pos[k - 1] up to the one before pos[k].                     *)
Entry == [d : Nat \ {0}, r : Nat]

TypesOK ==
  /\ times \in Seq(Nat)
  /\ head \in Nat \ {0} /\ head <= Newest
  /\ timeline \in Seq(Entry) /\ timeline # <<>>

Counts(pos) ==
  /\ pos \in [0 .. Len(timeline) -> head .. Newest + 1]
  /\ pos[0] = head /\ pos[Len(timeline)] = Newest + 1
  /\ \A k \in 1 .. Len(timeline) :
       /\ pos[k] = pos[k - 1] + timeline[k].r + 1
       /\ \A i \in 0 .. timeline[k].r + 1 :
            times[pos[k - 1] + i] = times[pos[k - 1]] + i * timeline[k].d

Decodes == \E pos : Counts(pos)

SourceInv == TypesOK /\ Decodes

(* What follows from the types.                                              *)
LEMMA Basics ==
  ASSUME TypesOK
  PROVE  /\ Len(times) \in Nat /\ Newest \in Nat /\ head \in Nat /\ 1 <= head /\ head <= Newest
         /\ DOMAIN times = 1 .. Newest + 1
         /\ \A i \in 1 .. Newest + 1 : times[i] \in Nat
         /\ Len(timeline) \in Nat \ {0}
         /\ \A k \in 1 .. Len(timeline) : timeline[k].d \in Nat \ {0} /\ timeline[k].r \in Nat
<1>1. Len(times) \in Nat /\ Len(timeline) \in Nat /\ DOMAIN times = 1 .. Len(times)
  BY LenProperties DEF TypesOK
<1>2. Newest \in Nat /\ Len(times) = Newest + 1
  BY <1>1 DEF TypesOK, Newest
<1>3. Len(timeline) # 0
  BY EmptySeq, <1>1 DEF TypesOK
<1>4. \A k \in 1 .. Len(timeline) : timeline[k] \in Entry
  BY ElementOfSeq DEF TypesOK
<1>5. \A i \in 1 .. Len(times) : times[i] \in Nat
  BY ElementOfSeq DEF TypesOK
<1> QED
  BY <1>1, <1>2, <1>3, <1>4, <1>5 DEF TypesOK, Entry

(* A source that has one segment.                                            *)
LEMMA InitSource == Init => SourceInv
<1> SUFFICES ASSUME Init PROVE SourceInv
  OBVIOUS
<1>1. PICK d \in Durations : times = <<0, d>> /\ timeline = <<[d |-> d, r |-> 0]>>
  BY DEF Init
<1>2. d \in Nat \ {0} /\ head = 1
  BY ManifestAssumption DEF Init
<1>3. times \in Seq(Nat) /\ Len(times) = 2 /\ times[1] = 0 /\ times[2] = d
  BY <1>1, <1>2
<1>4. [d |-> d, r |-> 0] \in Entry
  BY <1>2 DEF Entry
<1>5. timeline \in Seq(Entry) /\ Len(timeline) = 1 /\ timeline[1] = [d |-> d, r |-> 0]
  BY <1>1, <1>4
<1>6. TypesOK
  <2>1. Newest = 1
    BY <1>3 DEF Newest
  <2>2. timeline # <<>>
    BY <1>1
  <2> QED
    BY <1>2, <1>3, <1>5, <2>1, <2>2 DEF TypesOK
<1> DEFINE pos == [k \in 0 .. 1 |-> k + 1]
<1>7. pos \in [0 .. 1 -> 1 .. 2] /\ pos[0] = 1 /\ pos[1] = 2
  OBVIOUS
<1> HIDE DEF pos
<1>8. 1 * d = d /\ 0 * d = 0
  BY <1>2
<1>9. \A i \in 0 .. 1 : times[1 + i] = times[1] + i * d
  BY <1>2, <1>3, <1>8
<1>10. Counts(pos)
  BY <1>2, <1>3, <1>5, <1>7, <1>9 DEF Counts, Newest
<1> QED
  BY <1>6, <1>10 DEF SourceInv, Decodes

(* One segment more, in the last S or in one of its own.                     *)
LEMMA PublishSource ==
  ASSUME SourceInv, NEW d \in Durations, Publish(d)
  PROVE  SourceInv'
<1> DEFINE L == Len(timeline)
           N == Newest
<1>1. /\ N \in Nat /\ head \in Nat /\ 1 <= head /\ head <= N
      /\ \A i \in 1 .. N + 1 : times[i] \in Nat
      /\ L \in Nat \ {0} /\ d \in Nat \ {0}
      /\ \A k \in 1 .. L : timeline[k].d \in Nat \ {0} /\ timeline[k].r \in Nat
      /\ Len(times) = N + 1
  BY Basics, ManifestAssumption DEF SourceInv, Newest
<1>2. PICK pos : Counts(pos)
  BY DEF SourceInv, Decodes
<1>3. times' = Append(times, times[N + 1] + d) /\ head' = head
  BY <1>1 DEF Publish
<1>4. /\ times' \in Seq(Nat) /\ Len(times') = N + 2
      /\ \A i \in 1 .. N + 1 : times'[i] = times[i]
      /\ times'[N + 2] = times[N + 1] + d
  <2> DEFINE e == times[N + 1] + d
  <2>1. e \in Nat
    BY <1>1
  <2>2. times \in Seq(Nat)
    BY DEF SourceInv, TypesOK
  <2> HIDE DEF N, e
  <2>3. /\ Append(times, e) \in Seq(Nat) /\ Len(Append(times, e)) = Len(times) + 1
        /\ \A i \in 1 .. Len(times) : Append(times, e)[i] = times[i]
        /\ Append(times, e)[Len(times) + 1] = e
    BY <2>1, <2>2, AppendProperties
  <2>4. Len(times) + 1 = N + 2 /\ Len(times) = N + 1
    BY <1>1
  <2>5. times' = Append(times, e)
    BY <1>3 DEF e
  <2> QED
    BY <2>3, <2>4, <2>5 DEF e
<1>5. Newest' = N + 1
  BY <1>1, <1>4 DEF Newest
<1>6. timeline \in Seq(Entry)
  BY DEF SourceInv, TypesOK
<1>7. /\ pos \in [0 .. L -> head .. N + 1] /\ pos[0] = head /\ pos[L] = N + 1
      /\ \A k \in 1 .. L :
           /\ pos[k] = pos[k - 1] + timeline[k].r + 1
           /\ \A i \in 0 .. timeline[k].r + 1 :
                times[pos[k - 1] + i] = times[pos[k - 1]] + i * timeline[k].d
  BY <1>2 DEF Counts
<1> HIDE DEF L, N
<1>8. ASSUME NEW k \in 1 .. L, NEW i \in 0 .. timeline[k].r + 1
      PROVE  times'[pos[k - 1] + i] = times'[pos[k - 1]] + i * timeline[k].d
  <2>1. /\ pos[k - 1] \in head .. N + 1 /\ pos[k] \in head .. N + 1
        /\ pos[k] = pos[k - 1] + timeline[k].r + 1 /\ timeline[k].r \in Nat
    BY <1>1, <1>7
  <2>2. pos[k - 1] + i \in 1 .. N + 1 /\ pos[k - 1] \in 1 .. N + 1
    <3> DEFINE p == pos[k - 1]
               q == pos[k]
               r == timeline[k].r
    <3>1. p \in head .. N + 1 /\ q \in head .. N + 1 /\ q = p + r + 1 /\ i \in 0 .. r + 1 /\ r \in Nat
      BY <2>1
    <3> HIDE DEF p, q, r
    <3>2. p + i \in 1 .. N + 1 /\ p \in 1 .. N + 1
      BY <1>1, <3>1
    <3> QED
      BY <3>2 DEF p
  <2> QED
    BY <1>4, <1>7, <2>2
<1>9. CASE timeline' = Append(timeline, [d |-> d, r |-> 0])
  <2>1. [d |-> d, r |-> 0] \in Entry
    BY <1>1 DEF Entry
  <2>2. /\ timeline' \in Seq(Entry) /\ timeline' # <<>> /\ Len(timeline') = L + 1
        /\ \A k \in 1 .. L : timeline'[k] = timeline[k]
        /\ timeline'[L + 1] = [d |-> d, r |-> 0]
    BY <1>6, <1>9, <2>1, AppendProperties DEF L
  <2>3. PICK new : /\ new \in [0 .. L + 1 -> head .. N + 2] /\ new[L + 1] = N + 2
                   /\ \A k \in 0 .. L : new[k] = pos[k]
    <3> DEFINE f == [k \in 0 .. L + 1 |-> IF k = L + 1 THEN N + 2 ELSE pos[k]]
    <3>1. /\ f \in [0 .. L + 1 -> head .. N + 2] /\ f[L + 1] = N + 2
          /\ \A k \in 0 .. L : f[k] = pos[k]
      BY <1>1, <1>7
    <3> HIDE DEF f
    <3> QED
      BY <3>1
  <2>4. TypesOK'
    BY <1>1, <1>3, <1>4, <1>5, <2>2 DEF TypesOK
  <2>5. ASSUME NEW k \in 1 .. L + 1
        PROVE  /\ new[k] = new[k - 1] + timeline'[k].r + 1
               /\ \A i \in 0 .. timeline'[k].r + 1 :
                    times'[new[k - 1] + i] = times'[new[k - 1]] + i * timeline'[k].d
    <3>1. CASE k = L + 1
      <4>1. /\ new[k] = N + 2 /\ new[k - 1] = N + 1
            /\ timeline'[k].r = 0 /\ timeline'[k].d = d
        BY <1>1, <1>7, <2>2, <2>3, <3>1
      <4>2. 0 * d = 0 /\ 1 * d = d
        BY <1>1
      <4>3. times'[N + 1] = times[N + 1] /\ times[N + 1] \in Nat
        BY <1>1, <1>4
      <4>4. ASSUME NEW i \in 0 .. 1
            PROVE  times'[N + 1 + i] = times'[N + 1] + i * d
        <5>1. CASE i = 0
          BY <1>1, <4>2, <4>3, <5>1
        <5>2. CASE i = 1
          BY <1>1, <1>4, <4>2, <4>3, <5>2
        <5> QED
          BY <5>1, <5>2
      <4> QED
        BY <1>1, <4>1, <4>4
    <3>2. CASE k \in 1 .. L
      <4>1. k \in 0 .. L /\ k - 1 \in 0 .. L
        BY <1>1, <3>2
      <4>2. new[k] = pos[k] /\ new[k - 1] = pos[k - 1] /\ timeline'[k] = timeline[k]
        BY <2>2, <2>3, <3>2, <4>1
      <4> QED
        BY <1>7, <1>8, <3>2, <4>2
    <3> QED
      BY <1>1, <3>1, <3>2
  <2>6. Counts(new)'
    <3>1. new[0] = head /\ new[L + 1] = N + 1 + 1
      BY <1>1, <1>7, <2>3
    <3>2. new \in [0 .. L + 1 -> head .. N + 1 + 1]
      BY <1>1, <2>3
    <3> QED
      BY <1>3, <1>5, <2>2, <2>5, <3>1, <3>2 DEF Counts
  <2> QED
    BY <2>4, <2>6 DEF SourceInv, Decodes
<1>10. CASE timeline[L].d = d /\ timeline' = [timeline EXCEPT ![L].r = @ + 1]
  <2> DEFINE e == [timeline[L] EXCEPT !.r = @ + 1]
  <2>1. L \in 1 .. Len(timeline) /\ timeline[L] \in Entry
    BY <1>1, <1>6, ElementOfSeq DEF L
  <2>2. e \in Entry /\ e.r = timeline[L].r + 1 /\ e.d = d
    BY <1>10, <2>1 DEF Entry
  <2>3. timeline' = [timeline EXCEPT ![L] = e]
    BY <1>10
  <2> HIDE DEF e
  <2>4. /\ timeline' \in Seq(Entry) /\ Len(timeline') = L
        /\ \A k \in 1 .. L : timeline'[k] = IF k = L THEN e ELSE timeline[k]
    BY <1>6, <2>1, <2>2, <2>3, ExceptSeq DEF L
  <2>5. PICK new : /\ new \in [0 .. L -> head .. N + 2] /\ new[L] = N + 2
                   /\ \A k \in 0 .. L - 1 : new[k] = pos[k]
    <3> DEFINE f == [pos EXCEPT ![L] = N + 2]
    <3>1. /\ f \in [0 .. L -> head .. N + 2] /\ f[L] = N + 2
          /\ \A k \in 0 .. L - 1 : f[k] = pos[k]
      BY <1>1, <1>7
    <3> HIDE DEF f
    <3> QED
      BY <3>1
  <2>6. TypesOK'
    <3>1. timeline' # <<>>
      BY <1>1, <2>4
    <3> QED
      BY <1>1, <1>3, <1>4, <1>5, <2>4, <3>1 DEF TypesOK
  <2>7. ASSUME NEW k \in 1 .. L
        PROVE  /\ new[k] = new[k - 1] + timeline'[k].r + 1
               /\ \A i \in 0 .. timeline'[k].r + 1 :
                    times'[new[k - 1] + i] = times'[new[k - 1]] + i * timeline'[k].d
    <3>1. CASE k = L
      <4> DEFINE p == pos[L - 1]
                 r == timeline[L].r
      <4>1. /\ new[k] = N + 2 /\ new[k - 1] = p /\ timeline'[k].r = r + 1 /\ timeline'[k].d = d
            /\ p \in head .. N + 1 /\ N + 1 = p + r + 1 /\ r \in Nat
        <5>1. L \in 1 .. L /\ L - 1 \in 0 .. L - 1 /\ L - 1 \in 0 .. L
          BY <1>1
        <5>2. new[k] = N + 2 /\ new[k - 1] = p /\ timeline'[k].r = r + 1 /\ timeline'[k].d = d
          BY <2>2, <2>4, <2>5, <3>1, <5>1
        <5>3. p \in head .. N + 1 /\ N + 1 = p + r + 1 /\ r \in Nat
          BY <1>1, <1>7, <5>1
        <5> QED
          BY <5>2, <5>3
      <4>2. \A i \in 0 .. r + 1 : times'[p + i] = times'[p] + i * d
        BY <1>1, <1>8, <1>10
      <4> HIDE DEF p, r
      <4>3. times'[N + 1] = times'[p] + (r + 1) * d
        BY <4>1, <4>2
      <4>4. times'[N + 2] = times'[N + 1] + d
        BY <1>1, <1>4
      <4>5. (r + 2) * d = (r + 1) * d + d /\ (r + 1) * d \in Int
        <5>1. (r + 1 + 1) * d = (r + 1) * d + 1 * d /\ 1 * d = d
          BY <1>1, <4>1, Distributes
        <5> QED
          BY <1>1, <4>1, <5>1, Distributes
      <4>6. times'[p] \in Nat
        BY <1>1, <1>4, <4>1
      <4>7. times'[p + (r + 2)] = times'[p] + (r + 2) * d
        <5>1. p + (r + 2) = N + 2
          <6>1. p \in Int /\ r \in Int /\ N \in Int /\ N + 1 = p + r + 1
            BY <1>1, <4>1
          <6> QED
            BY ONLY <6>1
        <5>2. times'[N + 2] = times'[p] + (r + 1) * d + d
          BY <4>3, <4>4
        <5>3. times'[p] + (r + 1) * d + d = times'[p] + (r + 2) * d
          BY <1>1, <4>5, <4>6
        <5> QED
          BY <5>1, <5>2, <5>3
      <4>8. \A i \in 0 .. r + 1 + 1 : i \in 0 .. r + 1 \/ i = r + 2
        BY <4>1
      <4>9. \A i \in 0 .. r + 1 + 1 : times'[p + i] = times'[p] + i * d
        BY <4>2, <4>7, <4>8
      <4>10. N + 2 = p + (r + 1) + 1
        BY <1>1, <4>1
      <4> QED
        BY <4>1, <4>9, <4>10
    <3>2. CASE k # L
      <4>1. k \in 1 .. L - 1 /\ k - 1 \in 0 .. L - 1 /\ k \in 0 .. L - 1
        BY <1>1, <3>2
      <4> QED
        BY <1>7, <1>8, <2>4, <2>5, <3>2, <4>1
    <3> QED
      BY <3>1, <3>2
  <2>8. Counts(new)'
    <3>1. new[0] = head /\ new[L] = N + 1 + 1
      BY <1>1, <1>7, <2>5
    <3>2. new \in [0 .. L -> head .. N + 1 + 1]
      BY <1>1, <2>5
    <3> QED
      BY <1>3, <1>5, <2>4, <2>7, <3>1, <3>2 DEF Counts
  <2> QED
    BY <2>6, <2>8 DEF SourceInv, Decodes
<1> QED
  BY <1>9, <1>10 DEF Publish, L

(* One segment less, in the first S or as all of it.                         *)
LEMMA DropSource ==
  ASSUME SourceInv, DropOldest
  PROVE  SourceInv'
<1> DEFINE L == Len(timeline)
           N == Newest
           s == timeline[1]
<1>1. /\ N \in Nat /\ head \in Nat /\ 1 <= head /\ head < N /\ L \in Nat \ {0}
      /\ s.d \in Nat \ {0} /\ s.r \in Nat
      /\ \A i \in 1 .. N + 1 : times[i] \in Nat
      /\ \A k \in 1 .. L : timeline[k].d \in Nat \ {0} /\ timeline[k].r \in Nat
      /\ N = Newest
  BY Basics DEF SourceInv, DropOldest
<1>2. PICK pos : Counts(pos)
  BY DEF SourceInv, Decodes
<1>3. /\ times' = times /\ head' = head + 1 /\ Newest' = N
      /\ timeline' = IF s.r = 0 THEN Tail(timeline) ELSE [timeline EXCEPT ![1].r = @ - 1]
  BY DEF DropOldest, Newest
<1>4. timeline \in Seq(Entry) /\ times \in Seq(Nat)
  BY DEF SourceInv, TypesOK
<1>5. /\ pos \in [0 .. L -> head .. N + 1] /\ pos[0] = head /\ pos[L] = N + 1
      /\ \A k \in 1 .. L :
           /\ pos[k] = pos[k - 1] + timeline[k].r + 1
           /\ \A i \in 0 .. timeline[k].r + 1 :
                times[pos[k - 1] + i] = times[pos[k - 1]] + i * timeline[k].d
  BY <1>2 DEF Counts
<1>6. 1 \in 1 .. L /\ pos[1] = head + s.r + 1
  BY <1>1, <1>5
<1>7. \A k \in 1 .. L : pos[k] \in head + 1 .. N + 1
  <2> SUFFICES ASSUME NEW k \in 1 .. L PROVE pos[k] \in head + 1 .. N + 1
    OBVIOUS
  <2> DEFINE p == pos[k - 1]
             q == pos[k]
             r == timeline[k].r
  <2>1. p \in head .. N + 1 /\ q \in head .. N + 1 /\ q = p + r + 1 /\ r \in Nat
    <3>1. k \in 0 .. L /\ k - 1 \in 0 .. L
      BY <1>1
    <3> HIDE DEF L, N, s
    <3> QED
      BY <1>1, <1>5, <3>1
  <2> HIDE DEF p, q, r
  <2>2. q \in head + 1 .. N + 1
    BY <1>1, <2>1
  <2> QED
    BY <2>2 DEF q
<1> HIDE DEF L, N
<1>8. CASE s.r = 0
  <2>1. L > 1
    <3>1. CASE L = 1
      BY <1>1, <1>5, <1>6, <1>8, <3>1
    <3> QED
      BY <1>1, <3>1
  <2>2. /\ Tail(timeline) \in Seq(Entry) /\ Len(Tail(timeline)) = L - 1
        /\ \A k \in 1 .. L - 1 : Tail(timeline)[k] = timeline[k + 1]
    <3>1. timeline # <<>>
      BY DEF SourceInv, TypesOK
    <3>2. /\ Tail(timeline) \in Seq(Entry) /\ Len(Tail(timeline)) = Len(timeline) - 1
          /\ \A k \in 1 .. Len(Tail(timeline)) : Tail(timeline)[k] = timeline[k + 1]
      BY <1>4, <3>1, HeadTailProperties
    <3> QED
      BY <3>2 DEF L
  <2>3. /\ timeline' \in Seq(Entry) /\ Len(timeline') = L - 1
        /\ \A k \in 1 .. L - 1 : timeline'[k] = timeline[k + 1]
    BY <1>3, <1>8, <2>2
  <2>4. PICK new : /\ new \in [0 .. L - 1 -> head + 1 .. N + 1]
                   /\ \A k \in 0 .. L - 1 : new[k] = pos[k + 1]
    <3> DEFINE f == [k \in 0 .. L - 1 |-> pos[k + 1]]
    <3>1. \A k \in 0 .. L - 1 : k + 1 \in 1 .. L
      BY <1>1, <2>1
    <3>2. /\ f \in [0 .. L - 1 -> head + 1 .. N + 1]
          /\ \A k \in 0 .. L - 1 : f[k] = pos[k + 1]
      BY <1>7, <3>1
    <3> HIDE DEF f
    <3> QED
      BY <3>2
  <2>5. TypesOK'
    <3>1. timeline' # <<>>
      BY <1>1, <2>1, <2>3
    <3> QED
      BY <1>1, <1>3, <1>4, <2>3, <3>1 DEF TypesOK
  <2>6. new[0] = head + 1 /\ new[L - 1] = N + 1
    <3>1. new[0] = pos[1] /\ new[L - 1] = pos[L]
      BY <1>1, <2>1, <2>4
    <3> QED
      BY <1>1, <1>5, <1>6, <1>8, <3>1
  <2>7. ASSUME NEW k \in 1 .. L - 1
        PROVE  /\ new[k] = new[k - 1] + timeline'[k].r + 1
               /\ \A i \in 0 .. timeline'[k].r + 1 :
                    times'[new[k - 1] + i] = times'[new[k - 1]] + i * timeline'[k].d
    <3>1. k + 1 \in 1 .. L /\ k \in 0 .. L - 1 /\ k - 1 \in 0 .. L - 1 /\ (k + 1) - 1 = k
          /\ (k - 1) + 1 = k
      BY <1>1, <2>1
    <3>2. new[k] = pos[k + 1] /\ new[k - 1] = pos[(k + 1) - 1] /\ timeline'[k] = timeline[k + 1]
      BY <2>3, <2>4, <3>1
    <3> QED
      BY <1>3, <1>5, <3>1, <3>2
  <2> QED
    <3>1. Counts(new)'
      BY <1>3, <2>3, <2>4, <2>6, <2>7 DEF Counts
    <3> QED
      BY <2>5, <3>1 DEF SourceInv, Decodes
<1>9. CASE s.r # 0
  <2> DEFINE e == [s EXCEPT !.r = @ - 1]
  <2>1. 1 \in 1 .. Len(timeline) /\ s \in Entry
    BY <1>1, <1>4, <1>6, ElementOfSeq DEF L
  <2>2. e \in Entry /\ e.r = s.r - 1 /\ e.d = s.d
    BY <1>1, <1>9, <2>1 DEF Entry
  <2>3. timeline' = [timeline EXCEPT ![1] = e]
    BY <1>3, <1>9
  <2> HIDE DEF e
  <2>4. /\ timeline' \in Seq(Entry) /\ Len(timeline') = L
        /\ \A k \in 1 .. L : timeline'[k] = IF k = 1 THEN e ELSE timeline[k]
    BY <1>4, <2>1, <2>2, <2>3, ExceptSeq DEF L
  <2>5. PICK new : /\ new \in [0 .. L -> head + 1 .. N + 1] /\ new[0] = head + 1
                   /\ \A k \in 1 .. L : new[k] = pos[k]
    <3> DEFINE f == [pos EXCEPT ![0] = head + 1]
    <3>1. /\ f \in [0 .. L -> head + 1 .. N + 1] /\ f[0] = head + 1
          /\ \A k \in 1 .. L : f[k] = pos[k]
      <4>1. head + 1 \in head + 1 .. N + 1
        BY <1>1
      <4>2. \A k \in 0 .. L : k = 0 \/ k \in 1 .. L
        BY <1>1
      <4>3. 0 \in 0 .. L /\ \A k \in 1 .. L : k \in 0 .. L /\ k # 0
        BY <1>1
      <4> QED
        BY <1>5, <1>7, <4>1, <4>2, <4>3
    <3> HIDE DEF f
    <3> QED
      BY <3>1
  <2>6. TypesOK'
    <3>1. timeline' # <<>>
      BY <1>1, <2>4
    <3> QED
      BY <1>1, <1>3, <1>4, <2>4, <3>1 DEF TypesOK
  <2>7. ASSUME NEW k \in 1 .. L
        PROVE  /\ new[k] = new[k - 1] + timeline'[k].r + 1
               /\ \A i \in 0 .. timeline'[k].r + 1 :
                    times'[new[k - 1] + i] = times'[new[k - 1]] + i * timeline'[k].d
    <3>1. CASE k = 1
      <4>1. new[k] = head + 1 + (s.r - 1) + 1
        <5>1. new[k] = head + s.r + 1
          BY <1>6, <2>5, <3>1
        <5> HIDE DEF s
        <5> QED
          BY <1>1, <5>1
      <4>2. new[k - 1] = head + 1 /\ timeline'[k] = e
        BY <2>4, <2>5, <3>1
      <4> DEFINE r == s.r
                 d == s.d
      <4>3. \A i \in 0 .. r + 1 : times[head + i] = times[head] + i * d
        BY <1>5, <1>6
      <4>4. r \in Nat \ {0} /\ d \in Nat \ {0} /\ e.r = r - 1 /\ e.d = d /\ times[head] \in Nat
        BY <1>1, <1>9, <2>2
      <4> HIDE DEF r, d
      <4>5. ASSUME NEW i \in 0 .. r - 1 + 1
            PROVE  times[head + 1 + i] = times[head + 1] + i * d
        <5>1. i \in Int /\ i + 1 \in 0 .. r + 1 /\ 1 \in 0 .. r + 1 /\ head + (i + 1) = head + 1 + i
          BY <1>1, <4>4
        <5>2. times[head + 1 + i] = times[head] + (i + 1) * d /\ times[head + 1] = times[head] + 1 * d
          BY <4>3, <5>1
        <5>3. (i + 1) * d = i * d + 1 * d /\ i * d \in Int /\ 1 * d = d
          BY <4>4, <5>1, Distributes
        <5> QED
          BY <4>4, <5>2, <5>3
      <4>6. \A i \in 0 .. e.r + 1 : times[head + 1 + i] = times[head + 1] + i * e.d
        BY <4>4, <4>5
      <4> QED
        BY <1>3, <2>2, <4>1, <4>2, <4>6
    <3>2. CASE k # 1
      <4>1. k - 1 \in 1 .. L
        BY <1>1, <3>2
      <4>2. new[k] = pos[k] /\ new[k - 1] = pos[k - 1] /\ timeline'[k] = timeline[k]
        BY <2>4, <2>5, <3>2, <4>1
      <4> QED
        BY <1>3, <1>5, <4>2
    <3> QED
      BY <3>1, <3>2
  <2> QED
    <3>1. new[L] = N + 1
      BY <1>1, <1>5, <2>5
    <3>2. Counts(new)'
      BY <1>3, <2>4, <2>5, <2>7, <3>1 DEF Counts
    <3> QED
      BY <2>6, <3>2 DEF SourceInv, Decodes
<1> QED
  BY <1>8, <1>9

-----------------------------------------------------------------------------
(* What the parser computes from such a timeline: lists of the times of      *)
(* segments in a row, the first of them after segment a.                     *)
Pairs == [audio : Nat, video : Nat]

PairAt(ts, i) == [audio |-> ts[i], video |-> VideoTime(i)]

Row(ts, list, a) ==
  /\ list \in Seq(Pairs)
  /\ \A k \in 1 .. Len(list) : list[k] = PairAt(ts, a + k)

(* The parse has come to segment p.                                          *)
Reached(all, p) ==
  /\ all.audio = times[p] /\ all.video = VideoTime(p)
  /\ Row(times, all.list, head) /\ Len(all.list) = p - head

ParseStart == [audio |-> AudioTime(head), video |-> VideoTime(head), list |-> <<>>]

(* The recursion of Parsed is well founded: there is such a function.         *)
LEMMA ParsedDef ==
  ASSUME Len(timeline) \in Nat
  PROVE  /\ Parsed[0] = ParseStart
         /\ \A k \in 1 .. Len(timeline) : Parsed[k] = ListS(Parsed[k - 1], timeline[k])
<1> DEFINE L == Len(timeline)
           Step(g, k) == IF k = 0 THEN ParseStart ELSE ListS(g[k - 1], timeline[k])
           Upto(m) == \E g : g = [k \in 0 .. m |-> Step(g, k)]
           Bad == {m \in 0 .. L : ~Upto(m)}
<1> HIDE DEF L
<1>0. L \in Nat
  BY DEF L
<1>1. Upto(0)
  <2> DEFINE g == [k \in 0 .. 0 |-> ParseStart]
  <2>1. g = [k \in 0 .. 0 |-> Step(g, k)]
    OBVIOUS
  <2> QED
    BY <2>1
<1>2. ASSUME NEW m \in 1 .. L, Upto(m - 1)
      PROVE  Upto(m)
  <2>1. PICK g : g = [k \in 0 .. m - 1 |-> Step(g, k)]
    BY <1>2
  <2> DEFINE last == Step(g, m)
             f == [k \in 0 .. m |-> IF k = m THEN last ELSE g[k]]
  <2>2. ASSUME NEW k \in 0 .. m
        PROVE  f[k] = Step(f, k)
    <3>1. CASE k = m
      <4>1. m - 1 \in 0 .. m /\ m - 1 # m /\ m # 0
        BY <1>0
      <4>2. f[m - 1] = g[m - 1] /\ f[k] = last
        BY <3>1, <4>1
      <4> HIDE DEF f
      <4> QED
        BY <3>1, <4>1, <4>2
    <3>2. CASE k # m
      <4>1. k \in 0 .. m - 1 /\ (k # 0 => k - 1 \in 0 .. m /\ k - 1 # m)
        BY <1>0, <3>2
      <4>2. f[k] = g[k] /\ (k # 0 => f[k - 1] = g[k - 1])
        BY <3>2, <4>1
      <4>3. g[k] = Step(g, k)
        BY <2>1, <4>1
      <4> HIDE DEF f
      <4> QED
        BY <4>2, <4>3
    <3> QED
      BY <3>1, <3>2
  <2>3. f = [k \in 0 .. m |-> f[k]]
    OBVIOUS
  <2> HIDE DEF f
  <2>4. f = [k \in 0 .. m |-> Step(f, k)]
    BY <2>2, <2>3
  <2> QED
    BY <2>4
<1>3. Bad = {}
  <2> SUFFICES ASSUME Bad # {} PROVE FALSE
    OBVIOUS
  <2>1. Bad \in SUBSET Nat
    BY <1>0
  <2> HIDE DEF Upto
  <2>2. PICK m \in Bad : \A n \in Bad : m <= n
    <3> HIDE DEF Bad
    <3> QED
      BY <2>1, LeastNat
  <2>3. m \in 0 .. L /\ ~Upto(m) /\ m # 0
    BY <1>1, <2>2
  <2>4. m \in 1 .. L /\ m - 1 \in 0 .. L /\ ~(m <= m - 1)
    BY <1>0, <2>3
  <2>5. Upto(m - 1)
    BY <2>2, <2>4
  <2> QED
    BY <1>2, <2>3, <2>4, <2>5
<1>4. Upto(L)
  <2> HIDE DEF Upto
  <2> QED
    BY <1>0, <1>3
<1>5. PICK g : g = [k \in 0 .. L |-> Step(g, k)]
  BY <1>4
<1>6. Parsed = [k \in 0 .. L |-> Step(Parsed, k)]
  BY <1>5 DEF Parsed, ParseStart, L
<1> HIDE DEF Step
<1>7. \A k \in 0 .. L : Parsed[k] = Step(Parsed, k)
  BY <1>6
<1>8. 0 \in 0 .. L /\ \A k \in 1 .. L : k \in 0 .. L /\ k # 0
  BY <1>0
<1> QED
  BY <1>7, <1>8 DEF Step, L

LEMMA PairType ==
  ASSUME TypesOK, NEW i \in 1 .. Newest + 1
  PROVE  PairAt(times, i) \in Pairs
<1>1. i \in Int /\ i - 1 \in Nat /\ times[i] \in Nat
  BY Basics
<1>2. (i - 1) * VideoDuration \in Nat
  BY <1>1, ManifestAssumption
<1> QED
  BY <1>1, <1>2 DEF PairAt, Pairs, VideoTime

(* An S takes the parse from its first segment to the first of the next S.   *)
LEMMA ListSReaches ==
  ASSUME TypesOK, NEW all, NEW s \in Entry,
         NEW p \in head .. Newest + 1, NEW q \in head .. Newest + 1, q = p + s.r + 1,
         \A i \in 0 .. s.r + 1 : times[p + i] = times[p] + i * s.d,
         Reached(all, p)
  PROVE  Reached(ListS(all, s), q)
<1> DEFINE N == Newest
           r == s.r
           d == s.d
           more == [i \in 1 .. r + 1 |-> [audio |-> all.audio + i * d,
                                          video |-> all.video + i * VideoDuration]]
           list == all.list
<1>1. N \in Nat /\ head \in Nat /\ 1 <= head /\ r \in Nat /\ d \in Nat \ {0} /\ q = p + r + 1
  BY Basics DEF Entry
<1>2. /\ all.audio = times[p] /\ all.video = VideoTime(p)
      /\ list \in Seq(Pairs) /\ Len(list) = p - head
      /\ \A k \in 1 .. Len(list) : list[k] = PairAt(times, head + k)
  BY DEF Reached, Row
<1>3. \A i \in 0 .. r + 1 : times[p + i] = times[p] + i * d
  OBVIOUS
<1>4. p \in head .. N + 1 /\ q \in head .. N + 1 /\ VideoDuration \in Nat \ {0}
  BY ManifestAssumption
<1>5. ListS(all, s) = [audio |-> all.audio + (r + 1) * d,
                       video |-> all.video + (r + 1) * VideoDuration, list |-> list \o more]
  BY DEF ListS
<1> HIDE DEF N, r, d, list
<1>6. ASSUME NEW i \in 0 .. r + 1
      PROVE  VideoTime(p) + i * VideoDuration = VideoTime(p + i)
  <2>1. i \in Int /\ p - 1 \in Int /\ (p - 1) + i = p + i - 1
    BY <1>1, <1>4
  <2>2. ((p - 1) + i) * VideoDuration = (p - 1) * VideoDuration + i * VideoDuration
    BY <1>4, <2>1, Distributes
  <2> QED
    BY <2>1, <2>2 DEF VideoTime
<1>7. ASSUME NEW i \in 1 .. r + 1
      PROVE  more[i] = PairAt(times, p + i) /\ more[i] \in Pairs
  <2>1. i \in 0 .. r + 1
    BY <1>1
  <2>2. more[i] = [audio |-> times[p] + i * d, video |-> VideoTime(p) + i * VideoDuration]
    BY <1>2
  <2>3. more[i] = PairAt(times, p + i)
    BY <1>3, <1>6, <2>1, <2>2 DEF PairAt
  <2>4. p + i \in 1 .. N + 1
    BY <1>1, <1>4
  <2> QED
    BY <2>3, <2>4, PairType DEF N
<1>8. more \in Seq(Pairs) /\ Len(more) = r + 1
  <2>1. r + 1 \in Nat
    BY <1>1
  <2>2. more = [i \in 1 .. r + 1 |-> more[i]]
    OBVIOUS
  <2> HIDE DEF more
  <2>3. more \in [1 .. r + 1 -> Pairs]
    BY <1>7, <2>2
  <2>4. more \in Seq(Pairs)
    BY <2>1, <2>3, SeqDef
  <2> QED
    BY <2>1, <2>3, <2>4, LenProperties
<1> HIDE DEF more
<1>9. /\ list \o more \in Seq(Pairs) /\ Len(list \o more) = Len(list) + Len(more)
      /\ \A k \in 1 .. Len(list) + Len(more) :
           (list \o more)[k] = IF k <= Len(list) THEN list[k] ELSE more[k - Len(list)]
  BY <1>2, <1>8, ConcatProperties
<1>10. Len(list \o more) = q - head
  BY <1>1, <1>2, <1>4, <1>8, <1>9
<1>11. ASSUME NEW k \in 1 .. q - head
       PROVE  (list \o more)[k] = PairAt(times, head + k)
  <2>1. k \in 1 .. Len(list) + Len(more)
    BY <1>9, <1>10
  <2>2. CASE k <= Len(list)
    BY <1>1, <1>2, <1>4, <1>9, <2>1, <2>2
  <2>3. CASE ~(k <= Len(list))
    <3>1. k - (p - head) \in 1 .. r + 1 /\ p + (k - (p - head)) = head + k
      BY <1>1, <1>2, <1>4, <2>3
    <3>2. (list \o more)[k] = more[k - (p - head)]
      BY <1>2, <1>9, <2>1, <2>3
    <3> QED
      BY <1>7, <3>1, <3>2
  <2> QED
    BY <2>2, <2>3
<1>12. r + 1 \in 0 .. r + 1 /\ p + (r + 1) = q
  BY <1>1, <1>4
<1>13. all.audio + (r + 1) * d = times[q] /\ all.video + (r + 1) * VideoDuration = VideoTime(q)
  BY <1>2, <1>3, <1>6, <1>12
<1> QED
  BY <1>5, <1>9, <1>10, <1>11, <1>13 DEF Reached, Row

(* The whole list: every segment of the manifest and the one after it, but    *)
(* not the oldest.                                                           *)
LEMMA TimeListIs ==
  ASSUME SourceInv
  PROVE  Row(times, TimeList, head) /\ Len(TimeList) = Newest + 1 - head
<1> DEFINE L == Len(timeline)
<1>1. TypesOK /\ L \in Nat \ {0} /\ head \in Nat /\ head <= Newest /\ Newest \in Nat
  BY Basics DEF SourceInv
<1>2. PICK pos : Counts(pos)
  BY DEF SourceInv, Decodes
<1>3. /\ pos \in [0 .. L -> head .. Newest + 1] /\ pos[0] = head /\ pos[L] = Newest + 1
      /\ \A k \in 1 .. L :
           /\ pos[k] = pos[k - 1] + timeline[k].r + 1
           /\ \A i \in 0 .. timeline[k].r + 1 :
                times[pos[k - 1] + i] = times[pos[k - 1]] + i * timeline[k].d
  BY <1>2 DEF Counts
<1>4. \A k \in 1 .. L : timeline[k] \in Entry
  BY <1>1, ElementOfSeq DEF TypesOK
<1>5. /\ Parsed[0] = ParseStart
      /\ \A k \in 1 .. L : Parsed[k] = ListS(Parsed[k - 1], timeline[k])
  BY <1>1, ParsedDef
<1> DEFINE Bad == {m \in 0 .. L : ~Reached(Parsed[m], pos[m])}
<1> HIDE DEF L
<1>6. Reached(Parsed[0], pos[0])
  <2>1. Row(times, <<>>, head) /\ Len(<<>>) = 0
    <3>1. <<>> \in Seq(Pairs) /\ Len(<<>>) = 0
      BY EmptySeq
    <3> QED
      BY <3>1 DEF Row
  <2>2. head - head = 0
    BY <1>1
  <2> QED
    BY <1>3, <1>5, <2>1, <2>2 DEF Reached, ParseStart, AudioTime
<1>7. ASSUME NEW m \in 1 .. L, Reached(Parsed[m - 1], pos[m - 1])
      PROVE  Reached(Parsed[m], pos[m])
  <2> DEFINE p == pos[m - 1]
             q == pos[m]
             s == timeline[m]
             all == Parsed[m - 1]
  <2>1. m \in 0 .. L /\ m - 1 \in 0 .. L
    BY <1>1
  <2>2. /\ p \in head .. Newest + 1 /\ q \in head .. Newest + 1 /\ q = p + s.r + 1 /\ s \in Entry
        /\ \A i \in 0 .. s.r + 1 : times[p + i] = times[p] + i * s.d
        /\ Parsed[m] = ListS(all, s) /\ Reached(all, p)
    BY <1>3, <1>4, <1>5, <1>7, <2>1
  <2> HIDE DEF p, q, s, all
  <2>3. Reached(Parsed[m], q)
    BY <1>1, <2>2, ListSReaches
  <2> QED
    BY <2>3 DEF q
<1>8. Bad = {}
  <2> SUFFICES ASSUME Bad # {} PROVE FALSE
    OBVIOUS
  <2>1. Bad \in SUBSET Nat
    BY <1>1
  <2>2. PICK m \in Bad : \A n \in Bad : m <= n
    <3> HIDE DEF Bad
    <3> QED
      BY <2>1, LeastNat
  <2>3. m \in 0 .. L /\ ~Reached(Parsed[m], pos[m]) /\ m # 0
    BY <1>6, <2>2
  <2>4. m \in 1 .. L /\ m - 1 \in 0 .. L /\ ~(m <= m - 1)
    BY <1>1, <2>3
  <2>5. Reached(Parsed[m - 1], pos[m - 1])
    BY <2>2, <2>4
  <2> QED
    BY <1>7, <2>3, <2>4, <2>5
<1>9. Reached(Parsed[L], Newest + 1)
  <2>1. L \in 0 .. L
    BY <1>1
  <2> QED
    BY <1>3, <1>8, <2>1
<1>10. Row(times, Parsed[L].list, head) /\ Len(Parsed[L].list) = Newest + 1 - head
  <2>1. Row(times, Parsed[L].list, head) /\ Len(Parsed[L].list) = (Newest + 1) - head
    BY <1>9 DEF Reached
  <2>2. (Newest + 1) - head = Newest + 1 - head
    BY <1>1
  <2> QED
    BY <2>1, <2>2
<1>11. TimeList = Parsed[L].list
  BY DEF TimeList, L
<1> HIDE DEF Bad
<1> QED
  BY <1>10, <1>11

-----------------------------------------------------------------------------
(* The window a Time parse cuts out of it begins after segment WinFrom and    *)
(* ends with segment WinTo, for a manifest of the segments h .. n.           *)
WinFrom(h, n) == IF n + 1 - h > Limit + Lead THEN n + 1 - (Limit + Lead) ELSE h

WinTo(h, n) == IF WinFrom(h, n) + Limit < n + 1 THEN WinFrom(h, n) + Limit ELSE n + 1

(* What the last parse listed: nothing yet, numbers in a row, or the pairs of *)
(* segments in a row, none of them past the window of a parse right now.     *)
Listed(ts, list, template, h, n) ==
  \/ template = "none" /\ list = <<>>
  \/ template = "Number" /\ \E c \in Int : list = [k \in 1 .. Limit |-> c + k]
  \/ /\ template = "Time"
     /\ \E a \in Nat : /\ Row(ts, list, a) /\ Len(list) >= 1
                       /\ a <= WinFrom(h, n) /\ a + Len(list) <= WinTo(h, n)

ManifestInv == SourceInv /\ Listed(times, listed, by, head, Newest)

(* It is never empty, lies in the list, and only ever moves forward.         *)
LEMMA WindowIs ==
  ASSUME NEW h \in Nat, NEW n \in Nat, h <= n
  PROVE  /\ WinFrom(h, n) \in Nat /\ WinTo(h, n) \in Nat
         /\ h <= WinFrom(h, n) /\ WinFrom(h, n) < WinTo(h, n) /\ WinTo(h, n) <= n + 1
<1>1. Limit \in Nat \ {0} /\ Lead \in Nat \ {0}
  BY ManifestAssumption
<1> QED
  BY <1>1 DEF WinFrom, WinTo

LEMMA WindowMoves ==
  ASSUME NEW h \in Nat, NEW n \in Nat, h <= n,
         NEW g \in Nat, NEW m \in Nat, g <= m, h <= g, n <= m
  PROVE  WinFrom(h, n) <= WinFrom(g, m) /\ WinTo(h, n) <= WinTo(g, m)
<1>1. Limit \in Nat \ {0} /\ Lead \in Nat \ {0}
  BY ManifestAssumption
<1> QED
  BY <1>1 DEF WinFrom, WinTo

LEMMA TimeWindowIs ==
  ASSUME SourceInv
  PROVE  /\ Row(times, TimeWindow, WinFrom(head, Newest))
         /\ Len(TimeWindow) = WinTo(head, Newest) - WinFrom(head, Newest)
<1> DEFINE N == Newest
           list == TimeList
           n == N + 1 - head
           start == IF n > Limit + Lead THEN n - (Limit + Lead) ELSE 0
           end == IF start + Limit < n THEN start + Limit ELSE n
<1>1. head \in Nat /\ N \in Nat /\ head <= N /\ Limit \in Nat \ {0} /\ Lead \in Nat \ {0}
  BY Basics, ManifestAssumption DEF SourceInv
<1>2. /\ list \in Seq(Pairs) /\ Len(list) = n
      /\ \A k \in 1 .. Len(list) : list[k] = PairAt(times, head + k)
  BY TimeListIs DEF Row
<1>3. TimeWindow = SubSeq(list, start + 1, end)
  BY <1>2 DEF TimeWindow, Slice
<1> HIDE DEF N, list
<1>4. /\ n \in Nat /\ start \in 0 .. n /\ end \in 0 .. n /\ start < end
      /\ start + 1 \in Int /\ end \in Int
      /\ head + start = WinFrom(head, N) /\ head + end = WinTo(head, N)
  BY <1>1 DEF WinFrom, WinTo
<1> HIDE DEF n, start, end
<1>5. \A i \in start + 1 .. end : list[i] \in Pairs /\ i \in 1 .. n
  <2> SUFFICES ASSUME NEW i \in start + 1 .. end PROVE list[i] \in Pairs /\ i \in 1 .. n
    OBVIOUS
  <2>1. i \in 1 .. n
    BY <1>4
  <2> QED
    BY <1>2, <2>1, ElementOfSeq
<1>6. /\ SubSeq(list, start + 1, end) \in Seq(Pairs)
      /\ Len(SubSeq(list, start + 1, end)) =
           IF start + 1 <= end THEN end - (start + 1) + 1 ELSE 0
      /\ \A i \in 1 .. end - (start + 1) + 1 :
           SubSeq(list, start + 1, end)[i] = list[start + 1 + i - 1]
  BY <1>4, <1>5, SubSeqProperties
<1>7. Len(TimeWindow) = end - start
  BY <1>3, <1>4, <1>6
<1>8. ASSUME NEW k \in 1 .. end - start
      PROVE  TimeWindow[k] = PairAt(times, WinFrom(head, N) + k)
  <2>1. start + 1 + k - 1 \in 1 .. n /\ k \in 1 .. end - (start + 1) + 1
        /\ head + (start + 1 + k - 1) = WinFrom(head, N) + k
    BY <1>1, <1>4
  <2> QED
    BY <1>2, <1>3, <1>6, <2>1
<1>9. end - start = WinTo(head, N) - WinFrom(head, N)
  BY <1>1, <1>4
<1> QED
  BY <1>3, <1>6, <1>7, <1>8, <1>9 DEF Row, N

(* A row names the segments it lists, for no two segments begin their video   *)
(* part at the same time.                                                    *)
LEMMA RowNames ==
  ASSUME NEW ts, NEW list, NEW a \in Nat, NEW m \in Nat,
         DOMAIN ts = 1 .. m, Row(ts, list, a), a + Len(list) <= m
  PROVE  {i \in DOMAIN ts : \E k \in DOMAIN list :
            list[k] = [audio |-> ts[i], video |-> VideoTime(i)]} = a + 1 .. a + Len(list)
<1>1. /\ Len(list) \in Nat /\ DOMAIN list = 1 .. Len(list)
      /\ \A k \in 1 .. Len(list) : list[k] = [audio |-> ts[a + k], video |-> VideoTime(a + k)]
  BY LenProperties DEF Row, PairAt
<1>2. ASSUME NEW i \in 1 .. m, NEW k \in 1 .. Len(list),
             list[k] = [audio |-> ts[i], video |-> VideoTime(i)]
      PROVE  i = a + k
  <2>1. (i - 1) * VideoDuration = (a + k - 1) * VideoDuration
    BY <1>1, <1>2 DEF VideoTime
  <2> DEFINE x == i - 1
             y == a + k - 1
  <2>2. x \in Int /\ y \in Int /\ VideoDuration \in Nat \ {0}
    BY <1>1, ManifestAssumption
  <2>3. x * VideoDuration = y * VideoDuration
    BY <2>1
  <2> HIDE DEF x, y
  <2>4. ~(x < y) /\ ~(y < x)
    <3>1. x * VideoDuration \in Int /\ y * VideoDuration \in Int
      BY <2>2
    <3> QED
      BY <2>2, <2>3, <3>1, Increases
  <2>5. x = y
    BY <2>2, <2>4
  <2> QED
    BY <1>1, <2>5 DEF x, y
<1>3. ASSUME NEW i \in a + 1 .. a + Len(list)
      PROVE  i \in 1 .. m /\ \E k \in DOMAIN list :
                                list[k] = [audio |-> ts[i], video |-> VideoTime(i)]
  <2>1. i \in 1 .. m /\ i - a \in 1 .. Len(list) /\ a + (i - a) = i
    BY <1>1
  <2> QED
    BY <1>1, <2>1
<1>4. \A i \in 1 .. m, k \in 1 .. Len(list) : i = a + k => i \in a + 1 .. a + Len(list)
  BY <1>1
<1> QED
  BY <1>1, <1>2, <1>3, <1>4

-----------------------------------------------------------------------------
(* The invariant.                                                            *)
LEMMA Initially == Init => ManifestInv
<1> SUFFICES ASSUME Init PROVE ManifestInv
  OBVIOUS
<1>1. Listed(times, listed, by, head, Newest)
  BY DEF Init, Listed
<1> QED
  BY <1>1, InitSource DEF ManifestInv

(* As long as it is not read again, a list stays what it was.                *)
LEMMA SourceMoves ==
  ASSUME ManifestInv, TypesOK', UNCHANGED <<listed, by>>,
         head <= head', Newest <= Newest',
         \A i \in 1 .. Newest + 1 : times'[i] = times[i]
  PROVE  Listed(times, listed, by, head, Newest)'
<1>1. /\ head \in Nat /\ Newest \in Nat /\ head <= Newest
      /\ head' \in Nat /\ Newest' \in Nat /\ head' <= Newest'
  <2>1. TypesOK
    BY DEF ManifestInv, SourceInv
  <2>2. head \in Nat /\ Newest \in Nat /\ head <= Newest
    BY <2>1, Basics
  <2>3. head' \in Nat /\ head' <= Newest'
    BY DEF TypesOK
  <2>4. Newest' \in Int
    BY LenProperties DEF TypesOK, Newest
  <2> QED
    BY <2>2, <2>3, <2>4
<1>2. /\ WinFrom(head, Newest) <= WinFrom(head', Newest')
      /\ WinTo(head, Newest) <= WinTo(head', Newest')
      /\ WinFrom(head, Newest) \in Nat /\ WinTo(head, Newest) \in Nat
      /\ WinTo(head, Newest) <= Newest + 1
      /\ WinFrom(head', Newest') \in Nat /\ WinTo(head', Newest') \in Nat
  BY <1>1, WindowIs, WindowMoves
<1>3. listed' = listed /\ by' = by
  OBVIOUS
<1>4. CASE by = "Time"
  <2>1. PICK a \in Nat : /\ Row(times, listed, a) /\ Len(listed) >= 1
                         /\ a <= WinFrom(head, Newest)
                         /\ a + Len(listed) <= WinTo(head, Newest)
    BY <1>4 DEF ManifestInv, Listed
  <2>2. Len(listed) \in Nat
    BY <2>1, LenProperties DEF Row
  <2>3. Row(times', listed, a)
    <3>1. \A k \in 1 .. Len(listed) : a + k \in 1 .. Newest + 1
      BY <1>1, <1>2, <2>1, <2>2
    <3> QED
      BY <2>1, <3>1 DEF Row, PairAt
  <2>4. a <= WinFrom(head', Newest') /\ a + Len(listed) <= WinTo(head', Newest')
    BY <1>2, <2>1, <2>2
  <2> QED
    BY <1>3, <1>4, <2>1, <2>3, <2>4 DEF Listed
<1>5. CASE by # "Time"
  BY <1>3, <1>5 DEF ManifestInv, Listed
<1> QED
  BY <1>4, <1>5

(* A parse of a Time template lists its window.                              *)
LEMMA ParsedTime ==
  ASSUME ManifestInv, ParseTime
  PROVE  Listed(times, listed, by, head, Newest)'
<1>1. /\ Row(times, TimeWindow, WinFrom(head, Newest))
      /\ Len(TimeWindow) = WinTo(head, Newest) - WinFrom(head, Newest)
  BY TimeWindowIs DEF ManifestInv
<1>2. head \in Nat /\ Newest \in Nat /\ head <= Newest
  BY Basics DEF ManifestInv, SourceInv
<1>3. /\ WinFrom(head, Newest) \in Nat /\ WinTo(head, Newest) \in Nat
      /\ WinFrom(head, Newest) < WinTo(head, Newest)
  BY <1>2, WindowIs
<1>4. /\ times' = times /\ head' = head /\ Newest' = Newest
      /\ by' = "Time" /\ listed' = TimeWindow
  BY DEF ParseTime, Newest
<1> DEFINE a == WinFrom(head, Newest)
<1>5. a \in Nat /\ Len(listed') >= 1 /\ a + Len(listed') = WinTo(head, Newest)
  BY <1>1, <1>3, <1>4
<1>6. Row(times', listed', a)
  BY <1>1, <1>4
<1>7. a <= WinFrom(head', Newest') /\ a + Len(listed') <= WinTo(head', Newest')
  BY <1>3, <1>4, <1>5
<1> HIDE DEF a
<1> QED
  BY <1>4, <1>5, <1>6, <1>7 DEF Listed

(* How many segments the manifest has.                                       *)
LEMMA OfferedSize ==
  ASSUME TypesOK
  PROVE  Cardinality(Offered) = Newest - head + 1
<1>1. head \in Nat /\ Newest \in Nat /\ head <= Newest
  BY Basics
<1>2. Cardinality(head .. Newest) = IF head > Newest THEN 0 ELSE Newest - head + 1
  BY <1>1, FS_Interval
<1> QED
  BY <1>1, <1>2 DEF Offered

(* The depth of a Number template counts all the segments, or one less.      *)
LEMMA DepthIs ==
  ASSUME TypesOK, NEW depth \in Depths
  PROVE  depth \div 3 \in {Newest - head, Newest - head + 1}
<1>1. head \in Nat /\ Newest \in Nat /\ head <= Newest
  BY Basics
<1>2. Cardinality(Offered) = Newest - head + 1
  BY OfferedSize
<1> DEFINE n == Newest - head + 1
<1>3. Cardinality(Offered) = n /\ n \in Nat
  BY <1>1, <1>2
<1>4. PICK cut \in 0 .. 2 : depth = 3 * n - cut
  BY <1>3 DEF Depths
<1> HIDE DEF n
<1>5. depth \div 3 = n \/ depth \div 3 = n - 1
  BY <1>3, <1>4
<1> QED
  BY <1>1, <1>3, <1>5 DEF n

(* A parse of a Number template lists numbers in a row.                      *)
LEMMA ParsedNumber ==
  ASSUME ManifestInv, NEW depth \in Depths, ParseNumber(depth)
  PROVE  /\ Listed(times, listed, by, head, Newest)'
         /\ \E c \in {Newest - 2 * Limit, Newest + 1 - 2 * Limit} :
              listed' = [k \in 1 .. Limit |-> c + k]
<1>1. head \in Nat /\ Newest \in Nat /\ Limit \in Nat
  BY Basics, ManifestAssumption DEF ManifestInv, SourceInv
<1>2. depth \div 3 \in {Newest - head, Newest - head + 1}
  BY DepthIs DEF ManifestInv, SourceInv
<1> DEFINE q == depth \div 3
           c == head + q - 2 * Limit
<1>3. listed' = [k \in 1 .. Limit |-> head + q - 2 * Limit + k] /\ by' = "Number"
  BY DEF ParseNumber, NumberWindow
<1>4. listed' = [k \in 1 .. Limit |-> c + k]
  BY <1>3
<1>5. q \in {Newest - head, Newest - head + 1}
  BY <1>2
<1> HIDE DEF q
<1>6. c \in {Newest - 2 * Limit, Newest + 1 - 2 * Limit} /\ c \in Int
  BY <1>1, <1>5
<1> HIDE DEF c
<1> QED
  BY <1>3, <1>4, <1>6 DEF Listed

(* Every step keeps the invariant.                                           *)
LEMMA Preserved == ManifestInv /\ [Next]_vars => ManifestInv'
<1> SUFFICES ASSUME ManifestInv, [Next]_vars PROVE ManifestInv'
  OBVIOUS
<1>1. SourceInv /\ TypesOK
  BY DEF ManifestInv, SourceInv
<1>2. /\ head \in Nat /\ Newest \in Nat
      /\ times \in Seq(Nat) /\ Len(times) = Newest + 1 /\ DOMAIN times = 1 .. Newest + 1
  BY <1>1, Basics DEF Newest, TypesOK
<1>3. ASSUME NEW d \in Durations, Publish(d)
      PROVE  ManifestInv'
  <2>1. SourceInv'
    BY <1>1, <1>3, PublishSource
  <2>2. d \in Nat /\ times[Len(times)] \in Nat
    BY <1>1, <1>2, Basics, ManifestAssumption
  <2> DEFINE e == times[Len(times)] + d
  <2>3. e \in Nat /\ times' = Append(times, e)
    BY <1>3, <2>2 DEF Publish
  <2> HIDE DEF e
  <2>4. /\ Len(Append(times, e)) = Len(times) + 1
        /\ \A i \in 1 .. Len(times) : Append(times, e)[i] = times[i]
    BY <1>2, <2>3, AppendProperties
  <2>5. Newest <= Newest' /\ \A i \in 1 .. Newest + 1 : times'[i] = times[i]
    BY <1>2, <2>3, <2>4 DEF Newest
  <2>6. head <= head' /\ UNCHANGED <<listed, by>>
    BY <1>2, <1>3 DEF Publish
  <2> QED
    BY <2>1, <2>5, <2>6, SourceMoves DEF ManifestInv, SourceInv
<1>4. CASE DropOldest
  <2>1. SourceInv'
    BY <1>1, <1>4, DropSource
  <2>2. /\ head <= head' /\ UNCHANGED <<listed, by>> /\ Newest <= Newest'
        /\ \A i \in 1 .. Newest + 1 : times'[i] = times[i]
    BY <1>2, <1>4 DEF DropOldest, Newest
  <2> QED
    BY <2>1, <2>2, SourceMoves DEF ManifestInv, SourceInv
<1>5. ASSUME UNCHANGED <<times, head, timeline>>
      PROVE  SourceInv'
  <2>1. times' = times /\ head' = head /\ timeline' = timeline /\ Newest' = Newest
    BY <1>5 DEF Newest
  <2>2. TypesOK'
    BY <1>1, <2>1 DEF TypesOK
  <2>3. PICK pos : Counts(pos)
    BY <1>1 DEF SourceInv, Decodes
  <2>4. Counts(pos)'
    BY <2>1, <2>3 DEF Counts
  <2> QED
    BY <2>2, <2>4 DEF SourceInv, Decodes
<1>6. CASE ParseTime
  BY <1>5, <1>6, ParsedTime DEF ParseTime, ManifestInv
<1>7. ASSUME NEW depth \in Depths, ParseNumber(depth)
      PROVE  ManifestInv'
  BY <1>5, <1>7, ParsedNumber DEF ParseNumber, ManifestInv
<1>8. CASE UNCHANGED vars
  BY <1>5, <1>8 DEF vars, ManifestInv, Listed, Newest
<1> QED
  BY <1>3, <1>4, <1>6, <1>7, <1>8 DEF Next

-----------------------------------------------------------------------------
(* What a list of the source names.                                          *)
LEMMA TimeNumbers ==
  ASSUME TypesOK, NEW list, NEW a \in Nat,
         Row(times, list, a), a + Len(list) <= Newest + 1
  PROVE  NumbersOf(list, "Time") = a + 1 .. a + Len(list)
<1>1. DOMAIN times = 1 .. Newest + 1 /\ Newest + 1 \in Nat
  BY Basics
<1>2. NumbersOf(list, "Time") = {i \in DOMAIN times : \E k \in DOMAIN list :
            list[k] = [audio |-> times[i], video |-> VideoTime(i)]}
  BY DEF NumbersOf, AudioTime
<1> QED
  BY <1>1, <1>2, RowNames

Values(list) == {list[k] : k \in DOMAIN list}

LEMMA NumberNumbers ==
  ASSUME NEW c \in Int, NEW list, list = [k \in 1 .. Limit |-> c + k]
  PROVE  Values(list) = c + 1 .. c + Limit /\ Len(list) = Limit
<1>1. Limit \in Nat
  BY ManifestAssumption
<1>2. DOMAIN list = 1 .. Limit /\ Len(list) = Limit
  BY <1>1
<1>3. \A k \in 1 .. Limit : list[k] = c + k
  OBVIOUS
<1>4. ASSUME NEW i \in c + 1 .. c + Limit
      PROVE  i \in Values(list)
  <2>1. i - c \in 1 .. Limit /\ c + (i - c) = i
    BY <1>1
  <2> QED
    BY <1>2, <1>3, <2>1 DEF Values
<1>5. ASSUME NEW k \in 1 .. Limit
      PROVE  list[k] \in c + 1 .. c + Limit
  BY <1>1, <1>3
<1> QED
  BY <1>2, <1>4, <1>5 DEF Values

(* The last list as an interval of segments, and how long it is.             *)
LEMMA NumbersAre ==
  ManifestInv =>
    /\ \E a \in Int : Numbers = a + 1 .. a + Len(listed)
    /\ Len(listed) \in Nat
    /\ by = "Time" =>
         \E a \in Nat : /\ Numbers = a + 1 .. a + Len(listed) /\ Len(listed) >= 1
                        /\ a <= WinFrom(head, Newest)
                        /\ a + Len(listed) <= WinTo(head, Newest)
                        /\ Row(times, listed, a)
<1> SUFFICES ASSUME ManifestInv
             PROVE  /\ \E a \in Int : Numbers = a + 1 .. a + Len(listed)
                    /\ Len(listed) \in Nat
                    /\ by = "Time" =>
                         \E a \in Nat :
                           /\ Numbers = a + 1 .. a + Len(listed) /\ Len(listed) >= 1
                           /\ a <= WinFrom(head, Newest)
                           /\ a + Len(listed) <= WinTo(head, Newest)
                           /\ Row(times, listed, a)
  OBVIOUS
<1>1. CASE by = "none" /\ listed = <<>>
  <2>1. Numbers = {} /\ Len(listed) = 0
    BY <1>1 DEF Numbers, NumbersOf
  <2>2. 0 + 1 .. 0 + 0 = {}
    OBVIOUS
  <2> QED
    BY <1>1, <2>1, <2>2
<1>2. CASE by = "Number" /\ \E c \in Int : listed = [k \in 1 .. Limit |-> c + k]
  <2>1. PICK c \in Int : listed = [k \in 1 .. Limit |-> c + k]
    BY <1>2
  <2>2. Numbers = Values(listed)
    BY <1>2 DEF Numbers, NumbersOf, Values
  <2>3. Values(listed) = c + 1 .. c + Limit /\ Len(listed) = Limit
    BY <2>1, NumberNumbers
  <2> QED
    BY <1>2, <2>2, <2>3, ManifestAssumption
<1>3. ASSUME by = "Time",
             NEW a \in Nat, Row(times, listed, a), Len(listed) >= 1,
             a <= WinFrom(head, Newest), a + Len(listed) <= WinTo(head, Newest)
      PROVE  Numbers = a + 1 .. a + Len(listed) /\ Len(listed) \in Nat
  <2>1. head \in Nat /\ Newest \in Nat /\ head <= Newest /\ Len(listed) \in Nat
    BY <1>3, Basics, LenProperties DEF ManifestInv, SourceInv, Row
  <2>2. WinTo(head, Newest) <= Newest + 1 /\ WinTo(head, Newest) \in Nat
    BY <2>1, WindowIs
  <2>3. a + Len(listed) <= Newest + 1
    BY <1>3, <2>1, <2>2
  <2>4. NumbersOf(listed, "Time") = a + 1 .. a + Len(listed)
    BY <1>3, <2>3, TimeNumbers DEF ManifestInv, SourceInv
  <2> QED
    BY <1>3, <2>1, <2>4 DEF Numbers
<1> QED
  BY <1>1, <1>2, <1>3 DEF ManifestInv, Listed

(* The same after a step: what a Time parse names, and how every other step   *)
(* leaves it.                                                                *)
LEMMA TimeParseNumbers ==
  ASSUME ManifestInv, ParseTime
  PROVE  /\ Numbers' = WinFrom(head, Newest) + 1 .. WinFrom(head, Newest) + Len(listed')
         /\ Len(listed') = WinTo(head, Newest) - WinFrom(head, Newest)
<1> DEFINE a == WinFrom(head, Newest)
           b == WinTo(head, Newest)
<1>1. /\ DOMAIN times = 1 .. Newest + 1 /\ Newest \in Nat /\ head \in Nat /\ head <= Newest
  BY Basics DEF ManifestInv, SourceInv
<1>2. a \in Nat /\ b \in Nat /\ a < b /\ b <= Newest + 1
  BY <1>1, WindowIs
<1>3. Row(times, TimeWindow, a) /\ Len(TimeWindow) = b - a
  BY TimeWindowIs DEF ManifestInv
<1>4. times' = times /\ by' = "Time" /\ listed' = TimeWindow
  BY DEF ParseTime
<1>5. Numbers' = {i \in DOMAIN times : \E k \in DOMAIN listed' :
                    listed'[k] = [audio |-> times[i], video |-> VideoTime(i)]}
  BY <1>4 DEF Numbers, NumbersOf, AudioTime, VideoTime
<1> HIDE DEF a, b
<1>6. a + Len(TimeWindow) <= Newest + 1 /\ Newest + 1 \in Nat
  BY <1>1, <1>2, <1>3
<1>7. {i \in DOMAIN times : \E k \in DOMAIN TimeWindow :
          TimeWindow[k] = [audio |-> times[i], video |-> VideoTime(i)]}
        = a + 1 .. a + Len(TimeWindow)
  BY <1>1, <1>2, <1>3, <1>6, RowNames
<1> QED
  BY <1>3, <1>4, <1>5, <1>7 DEF a, b

LEMMA UnreadNumbers ==
  ASSUME ManifestInv, ManifestInv', [Next]_vars, by = "Time", ~ParseTime,
         NEW a \in Nat, Row(times, listed, a), a + Len(listed) <= WinTo(head, Newest)
  PROVE  Numbers' = a + 1 .. a + Len(listed) /\ listed' = listed
<1>1. /\ head \in Nat /\ Newest \in Nat /\ head <= Newest
      /\ times \in Seq(Nat) /\ Len(times) = Newest + 1
      /\ \A i \in 1 .. Newest + 1 : times[i] \in Nat
  BY Basics DEF ManifestInv, SourceInv, Newest, TypesOK
<1>2. /\ listed' = listed /\ by' = "Time" /\ Newest <= Newest'
      /\ \A i \in 1 .. Newest + 1 : times'[i] = times[i]
  <2>1. ASSUME NEW d \in Durations, Publish(d)
        PROVE  /\ listed' = listed /\ by' = "Time" /\ Newest <= Newest'
               /\ \A i \in 1 .. Newest + 1 : times'[i] = times[i]
    <3> DEFINE e == times[Len(times)] + d
    <3>1. e \in Nat /\ times' = Append(times, e)
      BY <1>1, <2>1, ManifestAssumption DEF Publish
    <3> HIDE DEF e
    <3>2. /\ Len(Append(times, e)) = Len(times) + 1
          /\ \A i \in 1 .. Len(times) : Append(times, e)[i] = times[i]
      BY <1>1, <3>1, AppendProperties
    <3> QED
      BY <1>1, <2>1, <3>1, <3>2 DEF Publish, Newest
  <2>2. CASE DropOldest \/ UNCHANGED vars
    BY <1>1, <2>2 DEF DropOldest, vars, Newest
  <2> QED
    BY <2>1, <2>2 DEF Next, ParseNumber
<1>3. Newest' \in Nat /\ DOMAIN times' = 1 .. Newest' + 1
  <2>1. times' \in Seq(Nat)
    BY DEF ManifestInv, SourceInv, TypesOK
  <2>2. Len(times') \in Nat /\ DOMAIN times' = 1 .. Len(times') /\ Newest' = Len(times') - 1
    BY <2>1, LenProperties DEF Newest
  <2> QED
    BY <1>1, <1>2, <2>2
<1>4. a + Len(listed) <= Newest + 1 /\ Len(listed) \in Nat
  <2>1. Len(listed) \in Nat
    BY LenProperties DEF Row
  <2>2. WinTo(head, Newest) <= Newest + 1 /\ WinTo(head, Newest) \in Nat
    BY <1>1, WindowIs
  <2> QED
    BY <1>1, <2>1, <2>2
<1>5. Row(times', listed, a)
  <2>1. \A k \in 1 .. Len(listed) : a + k \in 1 .. Newest + 1
    BY <1>1, <1>4
  <2> QED
    BY <1>2, <2>1 DEF Row, PairAt
<1>6. a + Len(listed) <= Newest' + 1 /\ Newest' + 1 \in Nat
  <2> DEFINE l == Len(listed)
             m == Newest
             n == Newest'
  <2>1. l \in Nat /\ m \in Nat /\ n \in Nat /\ a + l <= m + 1 /\ m <= n
    BY <1>1, <1>2, <1>3, <1>4
  <2> HIDE DEF l, m, n
  <2>2. a + l <= n + 1 /\ n + 1 \in Nat
    BY <2>1
  <2> QED
    BY <2>2 DEF l, n
<1>7. {i \in DOMAIN times' : \E k \in DOMAIN listed :
          listed[k] = [audio |-> times'[i], video |-> VideoTime(i)]}
        = a + 1 .. a + Len(listed)
  BY <1>3, <1>5, <1>6, RowNames
<1> QED
  BY <1>2, <1>7 DEF Numbers, NumbersOf, AudioTime, VideoTime

(* A Time parse pairs the parts of one segment, whatever their durations: as  *)
(* many segments as list entries, in a row (functions.php 975-1009).         *)
THEOREM SpecPairsMatch == Spec => []PairsMatch
<1>1. ManifestInv => PairsMatch
  <2> SUFFICES ASSUME ManifestInv PROVE PairsMatch
    OBVIOUS
  <2>1. PICK a \in Int : Numbers = a + 1 .. a + Len(listed)
    BY NumbersAre
  <2> DEFINE n == Len(listed)
  <2>2. n \in Nat
    BY NumbersAre
  <2>3. Numbers = a + 1 .. a + n
    BY <2>1
  <2> HIDE DEF n
  <2>4. Cardinality(Numbers) = n
    BY <2>2, <2>3, IntervalSize
  <2>5. \A i, j \in Numbers : i .. j \subseteq Numbers
    BY <2>2, <2>3
  <2> QED
    BY <2>4, <2>5 DEF PairsMatch, n
<1> QED
  BY Initially, Preserved, <1>1, PTL DEF Spec

(* The lists of a Time manifest move forward: the assumption SegmentPipeline  *)
(* makes of its Window (functions.php:1015).                                 *)
THEOREM SpecMovesForward == Spec => MovesForward
<1>1. ManifestInv /\ ManifestInv' /\ [Next]_vars
      => [by = "Time" =>
            \A i \in Numbers, j \in Numbers' :
              (\E k \in Numbers' : i <= k) /\ (\E k \in Numbers : k <= j)]_vars
  <2> SUFFICES ASSUME ManifestInv, ManifestInv', [Next]_vars, by = "Time", vars' # vars,
                      NEW i \in Numbers, NEW j \in Numbers'
               PROVE  (\E k \in Numbers' : i <= k) /\ (\E k \in Numbers : k <= j)
    BY DEF vars
  <2>1. PICK a \in Nat :
          /\ Numbers = a + 1 .. a + Len(listed) /\ Len(listed) >= 1
          /\ a <= WinFrom(head, Newest) /\ a + Len(listed) <= WinTo(head, Newest)
          /\ Row(times, listed, a)
    BY NumbersAre
  <2>2. Len(listed) \in Nat
    BY NumbersAre
  <2>3. \E b \in Nat : /\ Numbers' = b + 1 .. b + Len(listed') /\ Len(listed') \in Nat
                       /\ Len(listed') >= 1
                       /\ a <= b /\ a + Len(listed) <= b + Len(listed')
    <3>1. CASE ParseTime
      <4>1. /\ Numbers' = WinFrom(head, Newest) + 1 .. WinFrom(head, Newest) + Len(listed')
            /\ Len(listed') = WinTo(head, Newest) - WinFrom(head, Newest)
        BY <3>1, TimeParseNumbers
      <4>2. /\ WinFrom(head, Newest) \in Nat /\ WinTo(head, Newest) \in Nat
            /\ WinFrom(head, Newest) < WinTo(head, Newest)
        BY Basics, WindowIs DEF ManifestInv, SourceInv
      <4> DEFINE b == WinFrom(head, Newest)
                 c == WinTo(head, Newest)
                 n == Len(listed')
      <4>3. /\ Numbers' = b + 1 .. b + n /\ n = c - b /\ b \in Nat /\ c \in Nat /\ b < c
            /\ a <= b /\ a + Len(listed) <= c
        BY <2>1, <4>1, <4>2
      <4> HIDE DEF b, c, n
      <4>4. n \in Nat /\ n >= 1 /\ b + n = c
        BY <4>3
      <4> QED
        BY <4>3, <4>4 DEF n
    <3>2. CASE ~ParseTime
      <4>1. Numbers' = a + 1 .. a + Len(listed) /\ listed' = listed
        BY <2>1, <3>2, UnreadNumbers
      <4> QED
        BY <2>1, <2>2, <4>1
    <3> QED
      BY <3>1, <3>2
  <2>4. PICK b \in Nat : /\ Numbers' = b + 1 .. b + Len(listed') /\ Len(listed') \in Nat
                         /\ Len(listed') >= 1
                         /\ a <= b /\ a + Len(listed) <= b + Len(listed')
    BY <2>3
  <2> DEFINE m == Len(listed)
             n == Len(listed')
  <2>5. /\ i \in a + 1 .. a + m /\ j \in b + 1 .. b + n
        /\ a + 1 \in Numbers /\ b + n \in Numbers'
        /\ m \in Nat /\ n \in Nat /\ m >= 1 /\ n >= 1 /\ a <= b /\ a + m <= b + n
    BY <2>1, <2>2, <2>4
  <2> HIDE DEF m, n
  <2>6. i <= b + n /\ a + 1 <= j
    BY <2>5
  <2> QED
    BY <2>5, <2>6
<1> QED
  BY Initially, Preserved, <1>1, PTL DEF Spec, MovesForward

(* Once the manifest is long enough, every list has Limit segments, all of    *)
(* them segments the manifest has (functions.php 809, 845-859, 975-1015).     *)
THEOREM SpecListsOffered == Spec => ListsOffered
<1>1. ManifestInv /\ [Next]_vars
      => [(by' = "Time" /\ Cardinality(Offered) > Limit)
            \/ (by' = "Number" /\ Cardinality(Offered) >= 2 * Limit)
          => (listed' # listed
              => Cardinality(Numbers') = Limit /\ Numbers' \subseteq Offered)]_vars
  <2> SUFFICES ASSUME ManifestInv, [Next]_vars, listed' # listed,
                      \/ by' = "Time" /\ Cardinality(Offered) > Limit
                      \/ by' = "Number" /\ Cardinality(Offered) >= 2 * Limit
               PROVE  Cardinality(Numbers') = Limit /\ Numbers' \subseteq Offered
    BY DEF vars
  <2>1. /\ head \in Nat /\ Newest \in Nat /\ head <= Newest
        /\ Limit \in Nat \ {0} /\ Lead \in Nat \ {0} /\ TypesOK
    BY Basics, ManifestAssumption DEF ManifestInv, SourceInv
  <2>2. Cardinality(Offered) = Newest - head + 1
    BY <2>1, OfferedSize
  <2>3. ASSUME NEW a \in Int, Numbers' = a + 1 .. a + Limit, head <= a + 1, a + Limit <= Newest
        PROVE  Cardinality(Numbers') = Limit /\ Numbers' \subseteq Offered
    <3>1. Cardinality(a + 1 .. a + Limit) = Limit
      BY <2>1, IntervalSize
    <3> QED
      BY <2>1, <2>3, <3>1 DEF Offered
  <2>4. CASE ParseTime
    <3> DEFINE a == WinFrom(head, Newest)
               b == WinTo(head, Newest)
    <3>1. Numbers' = a + 1 .. a + Len(listed') /\ Len(listed') = b - a
      BY <2>4, TimeParseNumbers
    <3>2. Newest - head + 1 > Limit
      BY <2>2, <2>4 DEF ParseTime
    <3>3. a \in Int /\ b - a = Limit /\ head <= a + 1 /\ a + Limit <= Newest
      BY <2>1, <3>2 DEF WinFrom, WinTo
    <3> HIDE DEF a, b
    <3> QED
      BY <2>3, <3>1, <3>3
  <2>5. ASSUME NEW depth \in Depths, ParseNumber(depth)
        PROVE  Cardinality(Numbers') = Limit /\ Numbers' \subseteq Offered
    <3>1. PICK c \in {Newest - 2 * Limit, Newest + 1 - 2 * Limit} :
            listed' = [k \in 1 .. Limit |-> c + k]
      BY <2>5, ParsedNumber
    <3>2. Newest - head + 1 >= 2 * Limit
      BY <2>2, <2>5 DEF ParseNumber
    <3>3. c \in Int /\ head <= c + 1 /\ c + Limit <= Newest
      BY <2>1, <3>1, <3>2
    <3>4. Values(listed') = c + 1 .. c + Limit
      BY <3>1, <3>3, NumberNumbers
    <3>5. Numbers' = Values(listed')
      BY <2>5 DEF ParseNumber, Numbers, NumbersOf, Values
    <3> QED
      BY <2>3, <3>3, <3>4, <3>5
  <2> QED
    BY <2>4, <2>5 DEF Next, Publish, DropOldest, vars
<1> QED
  BY Initially, Preserved, <1>1, PTL DEF Spec, ListsOffered

(* The window SegmentPipeline takes a manifest for: Limit segments up to e.   *)
WindowUpTo(e) == {s \in 1 .. e : e - Limit < s}

(* From Limit segments on a Time parse lists such a window, from 2 * Limit on *)
(* a Number parse does (functions.php 804-859, 975-1016).                     *)
THEOREM SpecListsWindow ==
  Spec => [][(by' = "Time" /\ Cardinality(Offered) >= Limit)
               \/ (by' = "Number" /\ Cardinality(Offered) >= 2 * Limit)
             => (listed' # listed => \E e \in Nat : Numbers' = WindowUpTo(e))]_vars
<1>1. ManifestInv /\ [Next]_vars
      => [(by' = "Time" /\ Cardinality(Offered) >= Limit)
            \/ (by' = "Number" /\ Cardinality(Offered) >= 2 * Limit)
          => (listed' # listed => \E e \in Nat : Numbers' = WindowUpTo(e))]_vars
  <2> SUFFICES ASSUME ManifestInv, [Next]_vars, listed' # listed,
                      \/ by' = "Time" /\ Cardinality(Offered) >= Limit
                      \/ by' = "Number" /\ Cardinality(Offered) >= 2 * Limit
               PROVE  \E e \in Nat : Numbers' = WindowUpTo(e)
    BY DEF vars
  <2>1. /\ head \in Nat \ {0} /\ Newest \in Nat /\ head <= Newest /\ TypesOK
        /\ Limit \in Nat \ {0} /\ Lead \in Nat \ {0}
    BY Basics, ManifestAssumption DEF ManifestInv, SourceInv
  <2>2. ASSUME NEW a \in Nat, Numbers' = a + 1 .. a + Limit
        PROVE  \E e \in Nat : Numbers' = WindowUpTo(e)
    <3> DEFINE e == a + Limit
    <3>1. WindowUpTo(e) = a + 1 .. a + Limit
      BY <2>1 DEF WindowUpTo
    <3>2. e \in Nat
      BY <2>1
    <3> HIDE DEF e
    <3> QED
      BY <2>2, <3>1, <3>2
  <2>3. CASE ParseTime
    <3> DEFINE a == WinFrom(head, Newest)
               b == WinTo(head, Newest)
    <3>1. Numbers' = a + 1 .. a + Len(listed') /\ Len(listed') = b - a
      BY <2>3, TimeParseNumbers
    <3>2. Newest - head + 1 >= Limit
      <4>1. by' = "Time" /\ Cardinality(Offered) = Newest - head + 1
        BY <2>1, <2>3, OfferedSize DEF ParseTime
      <4> QED
        BY <4>1
    <3>3. a \in Nat /\ b - a = Limit
      BY <2>1, <3>2 DEF WinFrom, WinTo
    <3> HIDE DEF a, b
    <3> QED
      BY <2>2, <3>1, <3>3
  <2>4. ASSUME NEW depth \in Depths, ParseNumber(depth)
        PROVE  \E e \in Nat : Numbers' = WindowUpTo(e)
    <3>1. PICK c \in {Newest - 2 * Limit, Newest + 1 - 2 * Limit} :
            listed' = [k \in 1 .. Limit |-> c + k]
      BY <2>4, ParsedNumber
    <3>2. Newest - head + 1 >= 2 * Limit
      <4>1. by' = "Number" /\ Cardinality(Offered) = Newest - head + 1
        BY <2>1, <2>4, OfferedSize DEF ParseNumber
      <4> QED
        BY <4>1
    <3>3. c \in Nat
      BY <2>1, <3>1, <3>2
    <3>4. Values(listed') = c + 1 .. c + Limit
      BY <3>1, <3>3, NumberNumbers
    <3>5. Numbers' = Values(listed')
      BY <2>4 DEF ParseNumber, Numbers, NumbersOf, Values
    <3> QED
      BY <2>2, <3>3, <3>4, <3>5
  <2> QED
    BY <2>3, <2>4 DEF Next, Publish, DropOldest, vars
<1> QED
  BY Initially, Preserved, <1>1, PTL DEF Spec

=============================================================================
