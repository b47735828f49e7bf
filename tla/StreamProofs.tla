---------------------------- MODULE StreamProofs -----------------------------
(* The worker implements the ordered stream, for every window and every     *)
(* number of kept files, if each round loses only its newest segments.      *)
EXTENDS SegmentPipelineProofs

(* Files are numbered in the order of their segments and of their writing,  *)
(* up to the counter.                                                       *)
Ordered ==
  \A m, n \in DOMAIN final :
    m < n => final[m].seg < final[n].seg /\ final[m].mtime <= final[n].mtime

Top ==
  DOMAIN final # {} => \E p \in DOMAIN final : rLoop = p + 1 /\ \A n \in DOMAIN final : n <= p

(* What counts as held among the segments on offer is held, and everything  *)
(* up to a held one is, as long as no STOP is at the directory.             *)
Own ==
  /\ \A t \in DOMAIN map : t <= edge
  /\ \A t \in Window(edge) : Held(map, t) => final[map[t]].seg = t

Prefix ==
  Owned => \A n \in DOMAIN final, t \in Window(edge) : t <= final[n].seg => Held(map, t)

(* While a segment can still be muxed, nothing was dropped before it, and    *)
(* the counter is at the number of the first segment to mux.                 *)
Open(m, segs) == {t \in segs : ~Held(m, t)}

Ready(u) == u \in todo /\ u \in DOMAIN map /\ ~Held(map, u) /\ Parts(u) \subseteq encrypted

InRow ==
  pc = "process" /\ Owned /\ (\E u \in todo : Ready(u)) =>
    /\ \A t \in Window(edge) : t \notin todo => Held(map, t)
    /\ \A u \in Open(map, todo) :
         u \in DOMAIN map /\ map[u] = rLoop + Cardinality({t \in Open(map, todo) : t < u})

StreamInv == Tear /\ Ordered /\ Top /\ Own /\ Prefix /\ InRow

-----------------------------------------------------------------------------
(* A slice that misses a file is as large as was asked for.                  *)
LEMMA NewestFull ==
  ASSUME NEW f, IsFiniteSet(DOMAIN f), NEW n \in Nat, NEW keep \in Newest(f, n),
         keep # DOMAIN f
  PROVE  Cardinality(keep) = n
<1>1. keep \in SUBSET DOMAIN f /\ Cardinality(keep) = Min({n, Cardinality(DOMAIN f)})
  BY DEF Newest, kSubset
<1>2. Cardinality(DOMAIN f) \in Nat
  BY FS_CardinalityType
<1>3. {n, Cardinality(DOMAIN f)} \in SUBSET Nat
  BY <1>2
<1>4. Min({n, Cardinality(DOMAIN f)}) \in {n, Cardinality(DOMAIN f)}
  BY <1>3, MinOfNats
<1>5. Cardinality(keep) # Cardinality(DOMAIN f)
  BY <1>1, FS_Subset
<1> QED
  BY <1>1, <1>4, <1>5

(* Clearing keeps the latest slots: besides them, only files of the same     *)
(* second are as young, and these are fewer than a window.                   *)
LEMMA KeepsLatest ==
  ASSUME KeepsEnough, IInv, StoreInv, AgeInv, Ordered, Top,
         NEW keep \in Newest(final, MaxSegments),
         NEW n \in DOMAIN final, rLoop - (MaxSegments - WindowSize + 1) <= n
  PROVE  n \in keep
<1> SUFFICES ASSUME n \notin keep PROVE FALSE
  OBVIOUS
<1> DEFINE A == {k \in keep : k < n}
           B == {k \in keep : n < k}
           lo == final[n].seg - WindowSize + 1
           hi == final[n].seg - 1
<1>1. /\ WindowSize \in Nat \ {0} /\ MaxSegments \in Nat \ {0} /\ rLoop \in Nat
      /\ DOMAIN final \subseteq Nat
      /\ final \in [DOMAIN final -> [seg : Nat, mtime : Nat]]
  BY PipelineAssumption, StoreAssumption DEF IInv, TypeOK
<1>2. \A k \in DOMAIN final : final[k].seg \in Nat /\ final[k].mtime \in Nat
  BY <1>1
<1>3. keep \in SUBSET DOMAIN final /\ \A k \in keep : final[n].mtime <= final[k].mtime
  BY DEF Newest, kSubset
<1>4. IsFiniteSet(keep) /\ Cardinality(keep) = MaxSegments
  BY <1>1, <1>3, NewestFull, FS_Subset DEF StoreInv
<1>5. IsFiniteSet(A) /\ IsFiniteSet(B) /\ Cardinality(A) \in Nat /\ Cardinality(B) \in Nat
  BY <1>4, FS_Subset, FS_CardinalityType
<1>6. keep = A \cup B /\ A \cap B = {}
  BY <1>1, <1>3
<1>7. Cardinality(keep) = Cardinality(A) + Cardinality(B)
  <2> HIDE DEF A, B
  <2>1. Cardinality(A \cup B) = Cardinality(A) + Cardinality(B) - Cardinality(A \cap B)
    BY <1>5, FS_Union
  <2>2. Cardinality(A \cap B) = 0
    BY <1>6, FS_EmptySet
  <2> QED
    BY <1>5, <1>6, <2>1, <2>2
<1>8. Cardinality(B) <= MaxSegments - WindowSize
  <2>1. PICK p \in DOMAIN final : rLoop = p + 1 /\ \A k \in DOMAIN final : k <= p
    BY DEF Top
  <2>2. B \in SUBSET (n + 1 .. p) /\ n \in Int /\ p \in Int
    BY <1>1, <1>3, <2>1
  <2>3. /\ IsFiniteSet(n + 1 .. p)
        /\ Cardinality(n + 1 .. p) = IF n + 1 > p THEN 0 ELSE p - (n + 1) + 1
    BY <2>2, FS_Interval
  <2>4. Cardinality(B) <= Cardinality(n + 1 .. p)
    BY <2>2, <2>3, FS_Subset
  <2>5. p - n <= MaxSegments - WindowSize /\ 0 <= MaxSegments - WindowSize
    BY <1>1, <2>1, <2>2 DEF KeepsEnough
  <2> HIDE DEF B
  <2> QED
    BY <1>1, <1>5, <2>2, <2>3, <2>4, <2>5
<1>9. Cardinality(A) <= WindowSize - 1
  <2> SUFFICES ASSUME WindowSize - 1 < Cardinality(A) PROVE FALSE
    BY <1>1, <1>5
  <2> DEFINE f == [k \in A |-> final[k].seg]
  <2>1. \A k \in A : final[k].seg \in lo .. hi
    <3> SUFFICES ASSUME NEW k \in A PROVE final[k].seg \in lo .. hi
      OBVIOUS
    <3>1. k \in DOMAIN final /\ k < n /\ final[n].mtime <= final[k].mtime
      BY <1>3
    <3>2. final[n].seg - WindowSize < final[k].seg /\ final[k].seg < final[n].seg
      BY <3>1 DEF AgeInv, Near, Ordered
    <3> QED
      BY <1>1, <1>2, <3>1, <3>2
  <2>2. lo \in Int /\ hi \in Int /\ hi - lo + 1 = WindowSize - 1
    BY <1>1, <1>2
  <2>3. f \in [A -> lo .. hi]
    BY <2>1
  <2>4. IsFiniteSet(lo .. hi) /\ Cardinality(lo .. hi) < Cardinality(A)
    <3> HIDE DEF lo, hi, A
    <3>1. /\ IsFiniteSet(lo .. hi)
          /\ Cardinality(lo .. hi) = IF lo > hi THEN 0 ELSE hi - lo + 1
      BY <2>2, FS_Interval
    <3> QED
      BY <1>1, <1>5, <2>2, <3>1
  <2>5. \E j, k \in A : j # k /\ f[j] = f[k]
    <3> HIDE DEF f, lo, hi, A
    <3> QED
      BY <1>5, <2>3, <2>4, FS_PigeonHole
  <2> QED
    BY <1>3, <2>5 DEF IInv, NoDuplicate
<1> QED
  BY <1>1, <1>4, <1>5, <1>7, <1>8, <1>9

(* The first open segment has the counter's number.                          *)
LEMMA FirstIsNext ==
  ASSUME IInv, AgeInv, StreamInv, NEW s \in todo, Combine(s), TailFailures
  PROVE  /\ s \in Window(edge) /\ map[s] = rLoop /\ rLoop \notin DOMAIN final
         /\ \A n \in DOMAIN final : n < rLoop /\ final[n].seg < s
         /\ \A t \in Window(edge) : t < s => Held(map, t)
         /\ \A t \in Window(edge) : t # s /\ t \in DOMAIN map => map[t] # rLoop
<1>1. /\ pc = "process" /\ Owned /\ (\A t \in todo : s <= t) /\ Ready(s)
  <2>1. /\ pc = "process" /\ {"parts", "final"} \subseteq dirs
        /\ (\A t \in todo : s <= t) /\ Ready(s) /\ todo' # todo
    BY DEF Combine, CanMux, Visit, Ready
  <2>2. stop \cap VideoItems = {}
    BY <2>1 DEF TailFailures
  <2> QED
    BY <2>1, <2>2 DEF Owned
<1>2. /\ rLoop \in Nat /\ todo \subseteq Nat /\ DOMAIN final \subseteq Nat
      /\ final \in [DOMAIN final -> [seg : Nat, mtime : Nat]]
      /\ todo \subseteq Window(edge)
  BY <1>1 DEF IInv, TypeOK, AgeInv, Offered
<1>3. \A t \in Window(edge) : t \notin todo => Held(map, t)
  BY <1>1 DEF StreamInv, InRow
<1>4. \A u \in Open(map, todo) :
        u \in DOMAIN map /\ map[u] = rLoop + Cardinality({t \in Open(map, todo) : t < u})
  BY <1>1 DEF StreamInv, InRow
<1>5. s \in Window(edge) /\ s \in Open(map, todo)
  BY <1>1, <1>2 DEF Ready, Open
<1>6. map[s] = rLoop
  <2>1. {t \in Open(map, todo) : t < s} = {}
    BY <1>1, <1>2 DEF Open
  <2>2. Cardinality({t \in Open(map, todo) : t < s}) = 0
    BY <2>1, FS_EmptySet
  <2>3. map[s] = rLoop + Cardinality({t \in Open(map, todo) : t < s})
    BY <1>4, <1>5
  <2>4. map[s] = rLoop + 0
    BY <2>2, <2>3
  <2> QED
    BY <1>2, <2>4
<1>7. \A n \in DOMAIN final : n < rLoop
  BY <1>2 DEF StreamInv, Top
<1>8. \A n \in DOMAIN final : final[n].seg < s
  <2> SUFFICES ASSUME NEW n \in DOMAIN final, ~(final[n].seg < s) PROVE FALSE
    OBVIOUS
  <2>1. s <= final[n].seg
    BY <1>2
  <2> QED
    BY <1>1, <1>5, <2>1 DEF StreamInv, Prefix, Ready
<1>9. \A t \in Window(edge) : t < s => Held(map, t)
  <2> SUFFICES ASSUME NEW t \in Window(edge), t < s PROVE t \notin todo
    BY <1>3
  <2> QED
    BY <1>1, <1>2
<1>10. ASSUME NEW t \in Window(edge), t # s, t \in DOMAIN map
       PROVE  map[t] # rLoop
  <2>1. CASE Held(map, t)
    BY <1>2, <1>7, <2>1 DEF Held
  <2>2. CASE ~Held(map, t)
    <3> DEFINE before == {u \in Open(map, todo) : u < t}
    <3>1. t \in Open(map, todo)
      BY <1>3, <2>2 DEF Open
    <3>2. s \in before
      BY <1>1, <1>2, <1>5, <1>10, <3>1 DEF Open
    <3>3. IsFiniteSet(before)
      <4>1. IsFiniteSet(Window(edge))
        BY WindowBound DEF IInv, TypeOK
      <4>2. before \in SUBSET Window(edge)
        BY <1>2 DEF Open
      <4> QED
        BY <4>1, <4>2, FS_Subset
    <3>4. Cardinality(before) \in Nat /\ Cardinality(before) # 0
      <4> HIDE DEF before
      <4> QED
        BY <3>2, <3>3, FS_EmptySet, FS_CardinalityType
    <3>5. map[t] = rLoop + Cardinality(before)
      BY <1>4, <3>1
    <3> QED
      BY <1>2, <3>4, <3>5
  <2> QED
    BY <2>1, <2>2
<1>11. rLoop \notin DOMAIN final
  BY <1>2, <1>7
<1> QED
  BY <1>5, <1>6, <1>7, <1>8, <1>9, <1>10, <1>11

-----------------------------------------------------------------------------
(* Every step that loses only the newest segments keeps the stream in order. *)
LEMMA StepStreamInv ==
  ASSUME KeepsEnough, IInv, StoreInv, AgeInv, StreamInv, [Next /\ TailFailures]_vars
  PROVE  StreamInv'
<1> USE DEF StreamInv
<1>a. /\ rLoop \in Nat /\ now \in Nat /\ todo \subseteq Nat /\ edge \in Nat
      /\ DOMAIN map \subseteq Nat /\ map \in [DOMAIN map -> Nat]
      /\ DOMAIN final \subseteq Nat /\ final \in [DOMAIN final -> [seg : Nat, mtime : Nat]]
      /\ WindowSize \in Nat \ {0}
  BY PipelineAssumption DEF IInv, TypeOK
<1>b. \A n \in DOMAIN final : final[n].mtime \in Nat /\ final[n].seg \in Nat
  BY <1>a
<1>w. \A t \in Window(edge) : t \in Nat /\ t <= edge
  BY <1>a DEF Window
<1>empty. DOMAIN NoFiles = {}
  BY DEF NoFiles
<1>tear. Tear'
  <2>1. [Next]_vars
    OBVIOUS
  <2> QED
    BY <2>1, StepTear
<1>1. CASE Clean \/ MakeParts \/ MakeFinal \/ Start
  <2>1. DOMAIN final' = {} /\ DOMAIN map' = {} /\ edge' = edge /\ pc' # "process"
    BY <1>1, <1>empty DEF Clean, MakeParts, MakeFinal, Start, IInv, Bare
  <2> QED
    BY <1>tear, <2>1 DEF Ordered, Top, Own, Prefix, InRow, Held
<1>11. CASE StopReads \/ Stop
  <2>1. /\ final' = final \/ DOMAIN final' = {}
        /\ map' = map \/ DOMAIN map' = {}
        /\ UNCHANGED <<edge, rLoop>>
    BY <1>11, <1>empty DEF StopReads, Stop, StopUnlinks, StopRemovesFinal, StopRemovesRest,
                 StopRemovesHls, worker, files
  <2>2. Owned' => Owned /\ UNCHANGED <<worker, encrypted, final, now, playlist>>
    BY <1>11, StopNotOwned
  <2>3. Ordered' /\ Top'
    BY <2>1 DEF Ordered, Top
  <2>4. Own'
    BY <2>1 DEF Own, Held
  <2>5. Prefix' /\ InRow'
    <3>1. CASE ~Owned'
      BY <3>1 DEF Prefix, InRow
    <3>2. CASE Owned'
      BY <2>2, <3>2 DEF Prefix, InRow, Held, Open, Ready, worker
    <3> QED
      BY <3>1, <3>2
  <2> QED
    BY <1>tear, <2>3, <2>4, <2>5
<1>2. CASE ForceStopped \/ UpdateSegments \/ StartPlaylist
  <2>1. UNCHANGED <<final, map, edge, rLoop, dirs, stop>> /\ pc' # "process"
    BY <1>2 DEF ForceStopped, UpdateSegments, StartPlaylist, files
  <2> QED
    BY <1>tear, <2>1 DEF Ordered, Top, Own, Prefix, InRow, Held, Owned
<1>3. CASE Fetch
  <2>1. /\ UNCHANGED <<final, map, rLoop, dirs, stop>> /\ pc' = "audio"
        /\ edge' \in Nat /\ edge <= edge'
    <3>1. PICK e \in edge .. edge + MaxJump : e \in 1 .. MaxEdge /\ edge' = e
      BY <1>3 DEF Fetch
    <3>2. MaxJump \in Nat
      BY PipelineAssumption
    <3>3. edge' \in Nat /\ edge <= edge'
      BY <1>a, <3>1, <3>2
    <3> QED
      BY <1>3, <3>3 DEF Fetch, files
  <2>2. ASSUME NEW t \in Window(edge'), t <= edge
        PROVE  t \in Window(edge)
    BY <1>a, <2>1, <2>2 DEF Window
  <2>3. Ordered' /\ Top' /\ InRow'
    BY <2>1 DEF Ordered, Top, InRow
  <2>4. Own'
    <3>1. \A t \in DOMAIN map : t <= edge'
      BY <1>a, <2>1 DEF Own
    <3>2. ASSUME NEW t \in Window(edge'), Held(map, t)
          PROVE  final[map[t]].seg = t
      <4>1. t <= edge
        BY <3>2 DEF Held, Own
      <4> QED
        BY <2>2, <3>2, <4>1 DEF Own
    <3> QED
      BY <2>1, <3>1, <3>2 DEF Own, Held
  <2>5. Prefix'
    <3>1. ASSUME Owned, NEW n \in DOMAIN final, NEW t \in Window(edge'), t <= final[n].seg
          PROVE  Held(map, t)
      <4>1. final[n].seg <= edge
        BY DEF AgeInv, Offered
      <4>2. t \in Nat
        BY DEF Window
      <4>3. t <= edge
        BY <1>a, <1>b, <3>1, <4>1, <4>2
      <4> QED
        BY <2>2, <3>1, <4>3 DEF Prefix
    <3> QED
      BY <2>1, <3>1 DEF Prefix, Held, Owned
  <2> QED
    BY <1>tear, <2>3, <2>4, <2>5
<1>4. CASE DownloadAudio
  <2>1. UNCHANGED <<final, edge, rLoop, dirs, stop>> /\ pc' = "video"
    BY <1>4 DEF DownloadAudio
  <2>2. Ordered' /\ Top' /\ InRow'
    BY <2>1 DEF Ordered, Top, InRow
  <2>3. CASE rLoop = 0
    <3>1. DOMAIN map' = {}
      BY <1>4, <1>empty, <2>3 DEF DownloadAudio
    <3>2. ~(0 < rLoop)
      BY <2>3
    <3>3. DOMAIN final = {}
      BY <3>2 DEF IInv, Counted
    <3> QED
      BY <1>tear, <2>1, <2>2, <3>1, <3>3 DEF Own, Prefix, Held
  <2>4. CASE rLoop # 0
    <3>1. map' = map
      BY <1>4, <2>4 DEF DownloadAudio
    <3> QED
      BY <1>tear, <2>1, <2>2, <3>1 DEF Own, Prefix, Held, Owned
  <2> QED
    BY <2>3, <2>4
<1>5. CASE DownloadVideo
  <2>1. /\ UNCHANGED <<final, edge, rLoop, dirs, stop>> /\ todo' = Window(edge)
        /\ Owned' = Owned
    BY <1>5 DEF DownloadVideo, Owned
  <2>2. CASE ~VideoThere
    <3>1. map' = map /\ ~Owned
      BY <1>5, <2>2 DEF DownloadVideo, Owned, VideoThere
    <3> QED
      BY <1>tear, <2>1, <2>2, <3>1 DEF Ordered, Top, Own, Prefix, InRow, Held
  <2>3. CASE VideoThere
    <3> DEFINE missing == Missing(map)
    <3>1. map' = Assign(map, rLoop, missing)
      BY <1>5, <2>3 DEF DownloadVideo
    <3>2. missing \in SUBSET Window(edge) /\ missing = Open(map, Window(edge))
      BY DEF Missing, Open
    <3>3. \A s \in missing : Cardinality({t \in missing : t < s}) \in Nat
      <4> HIDE DEF missing
      <4> QED
        BY <1>a, <3>2, RankBound
    <3>4. /\ DOMAIN map' = DOMAIN map \cup missing
          /\ \A s \in missing : map'[s] = rLoop + Cardinality({t \in missing : t < s})
          /\ \A s \in DOMAIN map : s \notin missing => map'[s] = map[s]
      BY <3>1 DEF Assign
    <3> HIDE DEF missing
    <3>5. \A n \in DOMAIN final : n < rLoop
      BY <1>a DEF Top
    <3>6. \A s \in missing : map'[s] \notin DOMAIN final
      <4> SUFFICES ASSUME NEW s \in missing PROVE map'[s] \notin DOMAIN final
        OBVIOUS
      <4>1. map'[s] \in Nat /\ rLoop <= map'[s]
        <5> DEFINE rank == Cardinality({t \in missing : t < s})
        <5>1. rank \in Nat
          BY <3>3
        <5>2. map'[s] = rLoop + rank
          BY <3>4
        <5> HIDE DEF rank
        <5> QED
          BY <1>a, <5>1, <5>2
      <4> QED
        BY <1>a, <3>5, <4>1
    <3>7. \A t \in Window(edge) : (Held(map', t) <=> Held(map, t)) /\ (Held(map, t) => map'[t] = map[t])
      <4> SUFFICES ASSUME NEW t \in Window(edge)
                   PROVE  (Held(map', t) <=> Held(map, t)) /\ (Held(map, t) => map'[t] = map[t])
        OBVIOUS
      <4>1. CASE t \in missing
        BY <2>1, <3>2, <3>6, <4>1 DEF Held, Open
      <4>2. CASE t \notin missing
        BY <2>1, <3>2, <3>4, <4>2 DEF Held, Open
      <4> QED
        BY <4>1, <4>2
    <3>8. Ordered' /\ Top'
      BY <2>1 DEF Ordered, Top
    <3>9. Own'
      <4>1. \A t \in DOMAIN map' : t <= edge
        BY <1>w, <3>2, <3>4 DEF Own
      <4> QED
        BY <2>1, <3>7, <4>1 DEF Own, Held
    <3>10. Prefix'
      BY <2>1, <3>7 DEF Prefix, Held
    <3>11. Open(map, todo)' = missing
      BY <2>1, <3>2, <3>7 DEF Open, Held
    <3>12. InRow'
      BY <2>1, <3>4, <3>11 DEF InRow
    <3> QED
      BY <1>tear, <3>8, <3>9, <3>10, <3>12
  <2> QED
    BY <2>2, <2>3
<1>6. ASSUME NEW s \in todo, Skip(s)
      PROVE  StreamInv'
  <2>1. /\ UNCHANGED <<final, map, edge, rLoop, dirs, stop, encrypted>> /\ pc = "process"
        /\ todo' = todo \ {s} /\ Held(map, s) /\ Owned' = Owned
    BY <1>6 DEF Skip, Visit, files, Owned
  <2>2. Open(map, todo)' = Open(map, todo)
    BY <2>1 DEF Open, Held
  <2>3. \A u \in todo' : Ready(u)' => Ready(u)
    BY <2>1 DEF Ready, Held
  <2>4. InRow'
    <3> SUFFICES ASSUME Owned, NEW u \in todo, Ready(u)
                 PROVE  /\ \A t \in Window(edge) : t \notin todo' => Held(map, t)
                        /\ \A v \in Open(map, todo) :
                             v \in DOMAIN map
                               /\ map[v] = rLoop + Cardinality({t \in Open(map, todo) : t < v})
      BY <2>1, <2>2, <2>3 DEF InRow, Held
    <3> QED
      BY <2>1 DEF InRow
  <2> QED
    BY <1>tear, <2>1, <2>4 DEF Ordered, Top, Own, Prefix, Held
<1>7. ASSUME NEW s \in todo, Drop(s), TailFailures
      PROVE  StreamInv'
  <2>1. /\ UNCHANGED <<final, map, edge, rLoop, dirs, stop>> /\ ~Held(map, s)
        /\ todo' = todo \ {s} /\ Owned' = Owned
    BY <1>7 DEF Drop, Visit, Owned
  <2>2. Owned => \A t \in todo' : ~(Parts(t) \subseteq encrypted')
    <3>1. s \in todo \ todo'
      BY <2>1
    <3> QED
      BY <1>7, <2>1, <3>1 DEF TailFailures
  <2>3. InRow'
    BY <2>1, <2>2 DEF InRow, Ready, Parts, Types
  <2> QED
    BY <1>tear, <2>1, <2>3 DEF Ordered, Top, Own, Prefix, Held
<1>8. ASSUME NEW s \in todo, Combine(s), TailFailures
      PROVE  StreamInv'
  <2>own. Owned /\ Owned'
    <3>1. /\ UNCHANGED <<dirs, stop>> /\ {"parts", "final"} \subseteq dirs /\ todo' # todo
      BY <1>8 DEF Combine, CanMux
    <3>2. stop \cap VideoItems = {}
      BY <1>8, <3>1 DEF TailFailures
    <3> QED
      BY <3>1, <3>2 DEF Owned
  <2>1. /\ UNCHANGED <<map, edge>> /\ pc = "process"
        /\ todo' = todo \ {s} /\ rLoop' = rLoop + 1 /\ encrypted' = encrypted \ Parts(s)
        /\ final' = Put(final, map[s], [seg |-> s, mtime |-> now])
        /\ s \in DOMAIN map /\ Ready(s) /\ \A t \in todo : s <= t
    BY <1>8 DEF Combine, CanMux, Visit, Ready
  <2>2. /\ s \in Window(edge) /\ map[s] = rLoop /\ rLoop \notin DOMAIN final
        /\ \A n \in DOMAIN final : n < rLoop /\ final[n].seg < s
        /\ \A t \in Window(edge) : t < s => Held(map, t)
        /\ \A t \in Window(edge) : t # s /\ t \in DOMAIN map => map[t] # rLoop
    BY <1>8, FirstIsNext
  <2>3. /\ DOMAIN final' = DOMAIN final \cup {rLoop}
        /\ final'[rLoop].seg = s /\ final'[rLoop].mtime = now
        /\ \A n \in DOMAIN final : final'[n] = final[n]
    BY <2>1, <2>2 DEF Put
  <2>4. Ordered'
    <3>1. \A n \in DOMAIN final : final[n].mtime <= now
      BY DEF AgeInv, Dated
    <3> SUFFICES ASSUME NEW m \in DOMAIN final', NEW n \in DOMAIN final', m < n
                 PROVE  final'[m].seg < final'[n].seg /\ final'[m].mtime <= final'[n].mtime
      BY DEF Ordered
    <3>2. CASE m \in DOMAIN final /\ n \in DOMAIN final
      BY <2>3, <3>2 DEF Ordered
    <3>3. CASE n = rLoop /\ m \in DOMAIN final
      BY <2>2, <2>3, <3>1, <3>3
    <3>4. m # rLoop
      BY <1>a, <2>2, <2>3
    <3> QED
      BY <2>3, <3>2, <3>3, <3>4
  <2>5. Top'
    BY <1>a, <2>1, <2>2, <2>3 DEF Top
  <2>6. \A t \in Window(edge) : t # s => (Held(map, t)' <=> Held(map, t))
    BY <2>1, <2>2, <2>3 DEF Held
  <2>7. Held(map, s)'
    BY <2>1, <2>2, <2>3 DEF Held
  <2>8. Own'
    <3>1. ASSUME NEW t \in Window(edge), Held(map, t)'
          PROVE  final'[map[t]].seg = t
      <4>1. CASE t = s
        BY <2>2, <2>3, <4>1
      <4>2. CASE t # s
        BY <2>3, <2>6, <3>1, <4>2 DEF Own, Held
      <4> QED
        BY <4>1, <4>2
    <3> QED
      BY <2>1, <3>1 DEF Own
  <2>9. Prefix'
    <3> SUFFICES ASSUME NEW n \in DOMAIN final', NEW t \in Window(edge), t <= final'[n].seg
                 PROVE  Held(map, t)'
      BY <2>1 DEF Prefix
    <3>1. CASE t = s
      BY <2>7, <3>1
    <3>2. CASE t # s /\ n \in DOMAIN final
      BY <2>own, <2>3, <2>6, <3>2 DEF Prefix
    <3>3. CASE t # s /\ n = rLoop
      <4>1. t < s
        BY <1>a, <1>w, <2>2, <2>3, <3>3
      <4> QED
        BY <2>2, <2>6, <3>3, <4>1
    <3> QED
      BY <2>3, <3>1, <3>2, <3>3
  <2>10. todo \subseteq Window(edge)
    BY <2>1 DEF AgeInv, Offered
  <2>11. Open(map, todo)' = Open(map, todo) \ {s} /\ s \in Open(map, todo)
    <3>1. Open(map, todo)' = {t \in todo \ {s} : ~Held(map, t)'}
      BY <2>1 DEF Open, Held
    <3> QED
      BY <2>1, <2>6, <2>10, <3>1 DEF Open, Ready
  <2>12. InRow'
    <3>1. /\ \A t \in Window(edge) : t \notin todo => Held(map, t)
          /\ \A u \in Open(map, todo) :
               u \in DOMAIN map /\ map[u] = rLoop + Cardinality({t \in Open(map, todo) : t < u})
      BY <2>own, <2>1 DEF InRow
    <3>2. \A t \in Window(edge) : t \notin todo' => Held(map, t)'
      BY <2>1, <2>6, <2>7, <3>1
    <3>3. ASSUME NEW u \in Open(map, todo) \ {s}
          PROVE  map[u] = rLoop + 1 + Cardinality({t \in Open(map, todo) \ {s} : t < u})
      <4> DEFINE before == {t \in Open(map, todo) : t < u}
      <4>1. s < u
        BY <1>a, <2>1, <3>3 DEF Open
      <4>2. {t \in Open(map, todo) \ {s} : t < u} = before \ {s} /\ s \in before
        BY <2>11, <4>1
      <4>3. IsFiniteSet(before) /\ Cardinality(before) \in Nat
        <5>1. IsFiniteSet(Window(edge))
          BY <1>a, WindowBound
        <5>2. before \in SUBSET Window(edge)
          BY <2>10 DEF Open
        <5> QED
          BY <5>1, <5>2, FS_Subset, FS_CardinalityType
      <4>4. Cardinality(before \ {s}) = Cardinality(before) - 1
        <5> HIDE DEF before
        <5> QED
          BY <4>2, <4>3, FS_RemoveElement
      <4>5. map[u] = rLoop + Cardinality(before)
        BY <3>1, <3>3
      <4> DEFINE rank == Cardinality(before)
                 rest == Cardinality({t \in Open(map, todo) \ {s} : t < u})
      <4>6. rank \in Nat /\ rest = rank - 1 /\ map[u] = rLoop + rank
        BY <4>2, <4>3, <4>4, <4>5
      <4>7. map[u] = rLoop + 1 + rest
        <5> HIDE DEF rank, rest
        <5> QED
          BY <1>a, <4>6
      <4> QED
        BY <4>7
    <3> QED
      BY <2>1, <2>11, <3>1, <3>2, <3>3 DEF InRow
  <2> QED
    BY <1>tear, <2>4, <2>5, <2>8, <2>9, <2>12
<1>9. CASE ClearSegments
  <2>1. PICK keep \in Newest(final, MaxSegments) : final' = Restrict(final, keep)
    BY <1>9 DEF ClearSegments
  <2>2. keep \subseteq DOMAIN final
    BY DEF Newest, kSubset
  <2>3. DOMAIN final' = keep /\ \A n \in keep : final'[n] = final[n]
    BY <2>1 DEF Restrict
  <2>4. UNCHANGED <<map, edge, rLoop>> /\ pc' = "check" /\ Owned' = Owned
    BY <1>9 DEF ClearSegments, Owned
  <2>5. Top'
    <3> SUFFICES ASSUME keep # {}
                 PROVE  \E p \in keep : rLoop = p + 1 /\ \A n \in keep : n <= p
      BY <2>3, <2>4 DEF Top
    <3>1. PICK p \in DOMAIN final : rLoop = p + 1 /\ \A n \in DOMAIN final : n <= p
      BY <2>2 DEF Top
    <3>2. rLoop - (MaxSegments - WindowSize + 1) <= p
      BY <1>a, <3>1, StoreAssumption DEF KeepsEnough
    <3>3. p \in keep
      BY <3>2, KeepsLatest
    <3> QED
      BY <2>2, <3>1, <3>3
  <2>6. \A t \in Window(edge) : Held(map, t) => map[t] \in keep
    <3> SUFFICES ASSUME NEW t \in Window(edge), Held(map, t), map[t] \notin keep PROVE FALSE
      OBVIOUS
    <3>1. map[t] \in DOMAIN final \ keep /\ final[map[t]].seg = t
      BY DEF Held, Own
    <3> QED
      BY <3>1, ClearedLeft
  <2>7. Ordered'
    BY <2>2, <2>3 DEF Ordered
  <2>8. Own'
    BY <2>2, <2>3, <2>4 DEF Own, Held
  <2>9. Prefix'
    BY <2>2, <2>3, <2>4, <2>6 DEF Prefix, Held
  <2> QED
    BY <1>tear, <2>4, <2>5, <2>7, <2>8, <2>9 DEF InRow
<1>10. CASE PlayerEnds \/ PlayerCrashes \/ (\E n \in ffmpeg.left : Play(n)) \/ UNCHANGED vars
  <2>1. UNCHANGED <<worker, files, stop>>
    BY <1>10 DEF PlayerEnds, PlayerCrashes, Play, vars
  <2> QED
    BY <1>tear, <2>1 DEF Ordered, Top, Own, Prefix, InRow, Held, Open, Ready, Owned, worker,
                         files
<1> QED
  BY <1>1, <1>2, <1>3, <1>4, <1>5, <1>6, <1>7, <1>8, <1>9, <1>10, <1>11
     DEF Next, Worker, Mux, Player

-----------------------------------------------------------------------------
(* What the ordered stream sees of a directory: the segment of each slot and *)
(* the latest one.                                                           *)
Slots(f) == [n \in DOMAIN f |-> f[n].seg]

Latest(f) == IF f = NoFiles THEN 0 ELSE Max({f[n].seg : n \in DOMAIN f})

(* The latest segment is the one of a slot that is ahead of all others.      *)
LEMMA LatestIs ==
  ASSUME NEW f, f \in [DOMAIN f -> [seg : Nat, mtime : Nat]], NEW p \in DOMAIN f,
         \A n \in DOMAIN f : n # p => f[n].seg < f[p].seg
  PROVE  Latest(f) = f[p].seg
<1> DEFINE S == {f[n].seg : n \in DOMAIN f}
<1>1. f # NoFiles
  BY DEF NoFiles
<1>2. \A n \in DOMAIN f : f[n].seg \in Nat
  OBVIOUS
<1>3. f[p].seg \in S /\ S \subseteq Nat
  BY <1>2
<1>4. \A x \in S : x <= f[p].seg
  BY <1>2
<1>5. Max(S) = f[p].seg
  <2> HIDE DEF S
  <2>1. \A x \in S : (\A y \in S : x >= y) => x = f[p].seg
    BY <1>3, <1>4
  <2>2. \A y \in S : f[p].seg >= y
    BY <1>3, <1>4
  <2> QED
    BY <1>3, <2>1, <2>2 DEF Max
<1> QED
  BY <1>1, <1>5 DEF Latest

(* An empty directory is an empty stream.                                    *)
LEMMA NothingLatest ==
  ASSUME NEW f, f \in [DOMAIN f -> [seg : Nat, mtime : Nat]], DOMAIN f = {}
  PROVE  Slots(f) = [n \in {} |-> n] /\ Latest(f) = 0
<1>1. f = NoFiles
  BY DEF NoFiles
<1> QED
  BY <1>1 DEF Slots, Latest, NoFiles

(* Muxing appends: what it leaves out has left the source.                   *)
LEMMA CombineAppends ==
  ASSUME IInv, AgeInv, StreamInv, IInv', NEW s \in todo, Combine(s), TailFailures
  PROVE  Stream!Append
<1>1. /\ s \in Window(edge) /\ map[s] = rLoop /\ rLoop \notin DOMAIN final
      /\ \A n \in DOMAIN final : n < rLoop /\ final[n].seg < s
      /\ \A t \in Window(edge) : t < s => Held(map, t)
  BY FirstIsNext
<1>2. /\ final' = Put(final, rLoop, [seg |-> s, mtime |-> now])
      /\ rLoop' = rLoop + 1 /\ edge' = edge
  BY <1>1 DEF Combine
<1>3. /\ final \in [DOMAIN final -> [seg : Nat, mtime : Nat]] /\ edge \in Nat
      /\ final' \in [DOMAIN final' -> [seg : Nat, mtime : Nat]]
      /\ WindowSize \in Nat \ {0} /\ rLoop \in Nat /\ s \in Nat /\ s <= edge
      /\ DOMAIN final \subseteq Nat
  BY <1>1, PipelineAssumption DEF IInv, TypeOK, Window
<1>4. /\ DOMAIN final' = DOMAIN final \cup {rLoop} /\ final'[rLoop].seg = s
      /\ \A n \in DOMAIN final : final'[n] = final[n]
  BY <1>1, <1>2 DEF Put
<1>5. Latest(final') = s
  <2>1. \A n \in DOMAIN final' : n # rLoop => final'[n].seg < final'[rLoop].seg
    BY <1>1, <1>4
  <2> QED
    BY <1>3, <1>4, <2>1, LatestIs
<1>6. /\ Latest(final) \in Nat /\ Latest(final) < s
      /\ \A n \in DOMAIN final : final[n].seg <= Latest(final)
  <2>1. CASE DOMAIN final = {}
    <3>1. Latest(final) = 0
      BY <1>3, <2>1, NothingLatest
    <3>2. 0 < s
      BY <1>1, <1>3 DEF Window
    <3> QED
      BY <2>1, <3>1, <3>2
  <2>2. CASE DOMAIN final # {}
    <3>1. PICK p \in DOMAIN final : \A n \in DOMAIN final : n <= p
      BY <2>2 DEF StreamInv, Top
    <3>2. \A n \in DOMAIN final : n # p => final[n].seg < final[p].seg
      <4>1. \A n \in DOMAIN final : n # p => n < p
        BY <1>3, <3>1
      <4> QED
        BY <4>1 DEF StreamInv, Ordered
    <3>3. Latest(final) = final[p].seg
      BY <1>3, <3>2, LatestIs
    <3> QED
      BY <1>1, <1>3, <3>2, <3>3
  <2> QED
    BY <2>1, <2>2
<1>7. s \in Latest(final) + 1 .. edge
  BY <1>3, <1>6
<1>8. \A k \in Latest(final) + 1 .. s - 1 : k <= edge - WindowSize
  <2> SUFFICES ASSUME NEW k \in Latest(final) + 1 .. s - 1, edge - WindowSize < k
               PROVE  FALSE
    BY <1>3, <1>6
  <2>1. k \in Window(edge) /\ k < s
    BY <1>3, <1>6 DEF Window
  <2>2. Held(map, k) /\ final[map[k]].seg = k
    BY <1>1, <2>1 DEF StreamInv, Own
  <2>3. k <= Latest(final)
    BY <1>6, <2>2 DEF Held
  <2> QED
    BY <1>6, <2>3
<1>9. Slots(final') = [n \in DOMAIN Slots(final) \cup {rLoop} |->
                         IF n = rLoop THEN s ELSE Slots(final)[n]]
  BY <1>1, <1>4 DEF Slots
<1> QED
  BY <1>2, <1>5, <1>7, <1>8, <1>9 DEF Stream!Append, Slots, Latest

(* Clearing trims: the latest slots and the latest segment stay.             *)
LEMMA ClearTrims ==
  ASSUME KeepsEnough, IInv, StoreInv, AgeInv, StreamInv, IInv', ClearSegments
  PROVE  Stream!Trim
<1>1. PICK keep \in Newest(final, MaxSegments) : final' = Restrict(final, keep)
  BY DEF ClearSegments
<1>2. UNCHANGED <<rLoop, edge>>
  BY DEF ClearSegments
<1>3. keep \in SUBSET DOMAIN final
  BY DEF Newest, kSubset
<1>4. DOMAIN final' = keep /\ \A n \in keep : final'[n] = final[n]
  BY <1>1 DEF Restrict
<1>5. /\ final \in [DOMAIN final -> [seg : Nat, mtime : Nat]] /\ DOMAIN final \subseteq Nat
      /\ final' \in [DOMAIN final' -> [seg : Nat, mtime : Nat]]
      /\ WindowSize \in Nat \ {0} /\ MaxSegments \in Nat \ {0} /\ rLoop \in Nat
  BY PipelineAssumption, StoreAssumption DEF IInv, TypeOK
<1>6. \A n \in DOMAIN final : rLoop - (MaxSegments - WindowSize + 1) <= n => n \in keep
  BY KeepsLatest DEF StreamInv
<1>7. Latest(final') = Latest(final)
  <2>1. CASE DOMAIN final = {}
    <3>1. DOMAIN final' = {}
      BY <1>3, <1>4, <2>1
    <3> QED
      BY <1>5, <2>1, <3>1, NothingLatest
  <2>2. CASE DOMAIN final # {}
    <3>1. PICK p \in DOMAIN final : rLoop = p + 1 /\ \A n \in DOMAIN final : n <= p
      BY <2>2 DEF StreamInv, Top
    <3>2. p \in keep
      BY <1>5, <1>6, <3>1 DEF KeepsEnough
    <3>3. \A n \in DOMAIN final : n # p => final[n].seg < final[p].seg
      BY <1>5, <3>1 DEF StreamInv, Ordered
    <3>4. Latest(final) = final[p].seg
      BY <1>5, <3>3, LatestIs
    <3>5. p \in DOMAIN final' /\ \A n \in DOMAIN final' : n # p => final'[n].seg < final'[p].seg
      BY <1>3, <1>4, <3>2, <3>3
    <3>6. Latest(final') = final'[p].seg
      BY <1>5, <3>5, LatestIs
    <3> QED
      BY <1>4, <3>2, <3>4, <3>6
  <2> QED
    BY <2>1, <2>2
<1>8. Slots(final') = Stream!Restrict(Slots(final), keep)
  BY <1>3, <1>4 DEF Slots, Stream!Restrict
<1>9. keep \in SUBSET DOMAIN Slots(final)
  BY <1>3 DEF Slots
<1>10. {n \in DOMAIN Slots(final) : rLoop - (MaxSegments - WindowSize + 1) <= n} \subseteq keep
  BY <1>6 DEF Slots
<1> QED
  BY <1>2, <1>7, <1>8, <1>9, <1>10 DEF Stream!Trim, Slots, Latest

(* Every step of a worker is a step of the stream or changes nothing of it.  *)
LEMMA StepStream ==
  ASSUME KeepsEnough, IInv, StoreInv, AgeInv, StreamInv, IInv', [Next /\ TailFailures]_vars
  PROVE  [Stream!StreamNext]_(Stream!streamVars)
<1> DEFINE Goal == [Stream!StreamNext]_(Stream!streamVars)
<1>a. /\ final' \in [DOMAIN final' -> [seg : Nat, mtime : Nat]] /\ edge \in Nat
  BY DEF IInv, TypeOK
<1>same. UNCHANGED <<final, rLoop, edge>> => UNCHANGED Stream!streamVars
  BY DEF Stream!streamVars
<1>1. CASE Clean \/ StopUnlinks
  <2>1. DOMAIN final' = {} /\ UNCHANGED <<rLoop, edge>>
    BY <1>1 DEF Clean, StopUnlinks, NoFiles, worker
  <2>2. Slots(final') = [n \in {} |-> n] /\ Latest(final') = 0
    BY <1>a, <2>1, NothingLatest
  <2>3. Stream!Reset
    BY <2>1, <2>2 DEF Stream!Reset, Slots, Latest
  <2> QED
    BY <2>3 DEF Stream!StreamNext
<1>2. CASE Fetch
  <2>1. PICK e \in edge .. edge + MaxJump : edge' = e
    BY <1>2 DEF Fetch
  <2>2. UNCHANGED <<final, rLoop>>
    BY <1>2 DEF Fetch, files
  <2>3. edge' \in Nat /\ edge <= edge'
    <3>1. MaxJump \in Nat
      BY PipelineAssumption
    <3> QED
      BY <1>a, <2>1, <3>1
  <2>4. CASE edge' = edge
    BY <1>same, <2>2, <2>4
  <2>5. CASE edge' # edge
    <3>1. edge < edge'
      BY <1>a, <2>3, <2>5
    <3>2. Stream!Offer
      BY <2>2, <2>3, <3>1 DEF Stream!Offer
    <3> QED
      BY <3>2 DEF Stream!StreamNext
  <2> QED
    BY <2>4, <2>5
<1>3. ASSUME NEW s \in todo, Combine(s), TailFailures
      PROVE  Goal
  BY <1>3, CombineAppends DEF Stream!StreamNext
<1>4. CASE ClearSegments
  BY <1>4, ClearTrims DEF Stream!StreamNext
<1>5. ASSUME NEW s \in todo, Skip(s) \/ Drop(s)
      PROVE  Goal
  BY <1>same, <1>5 DEF Skip, Drop, files
<1>6. CASE ForceStopped \/ DownloadAudio \/ DownloadVideo \/ UpdateSegments \/ StartPlaylist
  BY <1>same, <1>6 DEF ForceStopped, DownloadAudio, DownloadVideo, UpdateSegments,
                       StartPlaylist, files
<1>7. CASE PlayerEnds \/ PlayerCrashes \/ (\E n \in ffmpeg.left : Play(n)) \/ UNCHANGED vars
  BY <1>same, <1>7 DEF PlayerEnds, PlayerCrashes, Play, vars, worker, files
<1>8. CASE MakeParts \/ MakeFinal \/ Start
  BY <1>same, <1>8 DEF MakeParts, MakeFinal, Start
<1>9. CASE StopReads \/ StopRemovesFinal \/ StopRemovesRest \/ StopRemovesHls
  BY <1>same, <1>9 DEF StopReads, StopRemovesFinal, StopRemovesRest, StopRemovesHls, worker,
                       files
<1> QED
  BY <1>1, <1>2, <1>3, <1>4, <1>5, <1>6, <1>7, <1>8, <1>9 DEF Next, Worker, Stop, Mux, Player

(* An empty directory is in order.                                           *)
LEMMA InitStreamInv == Init => AgeInv /\ StreamInv
<1> SUFFICES ASSUME Init PROVE AgeInv /\ StreamInv
  OBVIOUS
<1>1. DOMAIN final = {} /\ DOMAIN map = {} /\ pc = "start" /\ stop = {}
  BY DEF Init, NoFiles
<1> QED
  BY <1>1 DEF Tear, AgeInv, Dated, Fresh, Offered, Near, StreamInv, Ordered, Top, Own, Prefix,
              InRow, Held

(* The worker implements the ordered stream if its rounds lose only newest   *)
(* segments and the files kept hold two windows, for every window and store  *)
(* (functions.php:409-442, 485-560 and 238-257).                             *)
THEOREM TailIsStream ==
  ASSUME KeepsEnough
  PROVE  TailSpec => StreamSpec
<1> DEFINE Inv == IInv /\ StoreInv /\ AgeInv /\ StreamInv
<1>1. Init => Inv /\ Stream!StreamInit
  <2> SUFFICES ASSUME Init PROVE Stream!StreamInit
    BY InitIInv, InitStoreInv, InitStreamInv
  <2>1. DOMAIN final = {} /\ rLoop = 0 /\ edge = 0
    BY DEF Init, NoFiles
  <2>2. final \in [DOMAIN final -> [seg : Nat, mtime : Nat]]
    BY InitIInv DEF IInv, TypeOK
  <2>3. Slots(final) = [n \in {} |-> n] /\ Latest(final) = 0
    BY <2>1, <2>2, NothingLatest
  <2> QED
    BY <2>1, <2>3 DEF Stream!StreamInit, Slots, Latest
<1>2. Inv /\ [Next /\ TailFailures]_vars => Inv'
  <2>1. [Next /\ TailFailures]_vars => [Next]_vars
    OBVIOUS
  <2> QED
    BY <2>1, StepIInv, StepStoreInv, StepAgeInv, StepStreamInv
<1>3. Inv /\ Inv' /\ [Next /\ TailFailures]_vars => [Stream!StreamNext]_(Stream!streamVars)
  BY StepStream
<1> HIDE DEF Inv
<1> QED
  BY <1>1, <1>2, <1>3, PTL DEF TailSpec, StreamSpec, Stream!StreamSpec

-----------------------------------------------------------------------------
(* The player reads in order: what it still has to open is ahead of what it  *)
(* opened last, because a newer file than that one is always there. As long  *)
(* as nobody removes the directory, the worker never empties it again.       *)
Ahead ==
  0 < ffmpeg.last =>
    /\ \A n \in ffmpeg.left \cap DOMAIN final : ffmpeg.last < final[n].seg
    /\ \E n \in DOMAIN final : ffmpeg.last <= final[n].seg

NeverEmptied ==
  /\ 0 < rCompleted /\ stop = {}
  /\ pc \notin {"start", "parts"} => "parts" \in dirs
  /\ pc \notin {"start", "parts", "final"} => "final" \in dirs
  /\ pc \in {"start", "parts", "final", "hls"} => ffmpeg = NoPlayer /\ playlist = {}

PlayInv == removals = 0 => Ahead /\ NeverEmptied

(* Every step keeps the player's list ahead of it.                           *)
LEMMA StepPlayInv ==
  ASSUME KeepsEnough, IInv, StoreInv, AgeInv, StreamInv, PlayInv, [Next /\ TailFailures]_vars
  PROVE  PlayInv'
<1> SUFFICES ASSUME removals' = 0 PROVE Ahead' /\ NeverEmptied'
  BY DEF PlayInv
<1>a. /\ rLoop \in Nat /\ rCompleted \in Nat /\ removals \in Nat
      /\ DOMAIN final \subseteq Nat /\ final \in [DOMAIN final -> [seg : Nat, mtime : Nat]]
      /\ ffmpeg \in [left : SUBSET Nat, last : Nat \cup {-1}]
  BY DEF IInv, TypeOK
<1>b. \A n \in DOMAIN final : final[n].seg \in Nat
  BY <1>a
<1>none. ASSUME ffmpeg' = NoPlayer
         PROVE  Ahead'
  BY <1>none DEF Ahead, NoPlayer
<1>1. CASE StopReads
  BY <1>1, <1>a DEF StopReads
<1>2. CASE ~StopReads
  <2>1. removals' = removals
    BY <1>2 DEF Next, Worker, Clean, MakeParts, MakeFinal, Start, ForceStopped, Fetch,
                DownloadAudio, DownloadVideo, Mux, Skip, Combine, Drop, UpdateSegments,
                StartPlaylist, ClearSegments, Stop, StopUnlinks, StopRemovesFinal,
                StopRemovesRest, StopRemovesHls, Player, PlayerEnds, Play, PlayerCrashes, vars
  <2>2. Ahead /\ NeverEmptied
    BY <2>1 DEF PlayInv
  <2>3. CASE Clean \/ MakeParts \/ MakeFinal \/ Start
    <3>1. /\ ffmpeg' = NoPlayer /\ rCompleted' = rCompleted /\ playlist' = {} /\ stop' = {}
      BY <2>2, <2>3 DEF Clean, MakeParts, MakeFinal, Start, NeverEmptied
    <3>2. /\ pc' \notin {"start", "parts"} => "parts" \in dirs'
          /\ pc' \notin {"start", "parts", "final"} => "final" \in dirs'
      BY <2>2, <2>3 DEF Clean, MakeParts, MakeFinal, Start, NeverEmptied, VideoThere
    <3> QED
      BY <1>none, <2>2, <3>1, <3>2 DEF NeverEmptied
  <2>4. CASE ForceStopped
    BY <2>2, <2>4 DEF ForceStopped, NeverEmptied
  <2>14. CASE Stop
    BY <2>2, <2>14 DEF Stop, StopUnlinks, StopRemovesFinal, StopRemovesRest, StopRemovesHls,
                       NeverEmptied
  <2>5. CASE Fetch \/ DownloadAudio \/ DownloadVideo
    <3>1. /\ UNCHANGED <<final, ffmpeg, dirs, stop>>
          /\ pc \notin {"start", "parts", "final", "hls"}
          /\ pc' \notin {"start", "parts", "final", "hls"}
          /\ rCompleted' \in {rCompleted, CompletedBase}
      BY <2>5 DEF Fetch, DownloadAudio, DownloadVideo, files
    <3> QED
      BY <2>2, <3>1 DEF Ahead, NeverEmptied, CompletedBase
  <2>6. ASSUME NEW s \in todo, Skip(s) \/ Drop(s)
        PROVE  Ahead' /\ NeverEmptied'
    <3>1. /\ UNCHANGED <<final, ffmpeg, dirs, stop, rCompleted, pc>> /\ pc = "process"
      BY <2>6 DEF Skip, Drop, Visit, files
    <3> QED
      BY <2>2, <3>1 DEF Ahead, NeverEmptied
  <2>7. ASSUME NEW s \in todo, Combine(s), TailFailures
        PROVE  Ahead' /\ NeverEmptied'
    <3>1. /\ map[s] = rLoop /\ rLoop \notin DOMAIN final /\ s \in Nat
          /\ \A n \in DOMAIN final : final[n].seg < s
      BY <2>7, FirstIsNext DEF Window
    <3>2. /\ UNCHANGED <<ffmpeg, dirs, stop, pc>> /\ pc = "process" /\ rCompleted' = rCompleted + 1
          /\ final' = Put(final, rLoop, [seg |-> s, mtime |-> now])
      BY <2>7, <3>1 DEF Combine, Visit
    <3>3. /\ DOMAIN final' = DOMAIN final \cup {rLoop} /\ final'[rLoop].seg = s
          /\ \A n \in DOMAIN final : final'[n] = final[n]
      BY <3>1, <3>2 DEF Put
    <3>4. NeverEmptied'
      BY <1>a, <2>2, <3>2 DEF NeverEmptied
    <3>5. 0 < ffmpeg.last => ffmpeg.last < s
      <4> SUFFICES ASSUME 0 < ffmpeg.last PROVE ffmpeg.last < s
        OBVIOUS
      <4>1. PICK n \in DOMAIN final : ffmpeg.last <= final[n].seg
        BY <2>2 DEF Ahead
      <4>2. final[n].seg < s /\ final[n].seg \in Nat /\ ffmpeg.last \in Int
        BY <1>a, <1>b, <3>1
      <4> QED
        BY <3>1, <4>1, <4>2
    <3>6. Ahead'
      BY <2>2, <3>2, <3>3, <3>5 DEF Ahead
    <3> QED
      BY <3>4, <3>6
  <2>8. CASE UpdateSegments
    <3>1. UNCHANGED <<final, ffmpeg, dirs, stop, rCompleted>> /\ pc = "process" /\ pc' = "play"
      BY <2>2, <2>8 DEF UpdateSegments, NeverEmptied
    <3> QED
      BY <2>2, <3>1 DEF Ahead, NeverEmptied
  <2>9. CASE StartPlaylist
    <3>1. /\ UNCHANGED <<final, dirs, stop, rCompleted>> /\ pc = "play" /\ pc' = "clear"
          /\ ffmpeg' = ffmpeg \/ ffmpeg'.last = 0
      BY <2>9 DEF StartPlaylist, files
    <3> QED
      BY <2>2, <3>1 DEF Ahead, NeverEmptied
  <2>10. CASE ClearSegments
    <3>1. PICK keep \in Newest(final, MaxSegments) : final' = Restrict(final, keep)
      BY <2>10 DEF ClearSegments
    <3>2. UNCHANGED <<ffmpeg, dirs, stop, rCompleted>> /\ pc = "clear" /\ pc' = "check"
      BY <2>10 DEF ClearSegments
    <3>3. keep \in SUBSET DOMAIN final
      BY DEF Newest, kSubset
    <3>4. DOMAIN final' = keep /\ \A n \in keep : final'[n] = final[n]
      BY <3>1 DEF Restrict
    <3>5. 0 < ffmpeg.last => \E n \in keep : ffmpeg.last <= final[n].seg
      <4> SUFFICES ASSUME 0 < ffmpeg.last PROVE \E n \in keep : ffmpeg.last <= final[n].seg
        OBVIOUS
      <4>1. PICK m \in DOMAIN final : ffmpeg.last <= final[m].seg
        BY <2>2 DEF Ahead
      <4>2. PICK p \in DOMAIN final : rLoop = p + 1 /\ \A n \in DOMAIN final : n <= p
        BY <4>1 DEF StreamInv, Top
      <4>3. p \in keep
        <5>1. rLoop - (MaxSegments - WindowSize + 1) <= p
          BY <1>a, <4>2, StoreAssumption, PipelineAssumption DEF KeepsEnough
        <5> QED
          BY <5>1, KeepsLatest DEF StreamInv
      <4>4. final[m].seg <= final[p].seg
        BY <1>a, <1>b, <4>2 DEF StreamInv, Ordered
      <4>5. ffmpeg.last <= final[p].seg
        BY <1>a, <1>b, <4>1, <4>4
      <4> QED
        BY <4>3, <4>5
    <3> QED
      BY <2>2, <3>2, <3>3, <3>4, <3>5 DEF Ahead, NeverEmptied
  <2>11. ASSUME NEW n \in ffmpeg.left, Play(n)
         PROVE  Ahead' /\ NeverEmptied'
    <3>1. /\ UNCHANGED <<worker, files, stop>> /\ n \in DOMAIN final
          /\ ffmpeg' = [left |-> ffmpeg.left \ {n}, last |-> final[n].seg]
          /\ \A m \in ffmpeg.left : n <= m
      BY <2>11 DEF Play, Opens
    <3>2. \A m \in ffmpeg.left \cap DOMAIN final : m # n => final[n].seg < final[m].seg
      BY <1>a, <3>1 DEF StreamInv, Ordered
    <3>3. final[n].seg <= final[n].seg
      BY <1>b, <3>1
    <3>4. pc \notin {"start", "parts", "final", "hls"}
      BY <2>2 DEF NeverEmptied, NoPlayer
    <3> QED
      BY <2>2, <3>1, <3>2, <3>3, <3>4 DEF Ahead, NeverEmptied, worker, files
  <2>12. CASE PlayerEnds \/ PlayerCrashes
    <3>1. UNCHANGED <<worker, files, stop>> /\ ffmpeg' = NoPlayer
      BY <2>12 DEF PlayerEnds, PlayerCrashes
    <3> QED
      BY <1>none, <2>2, <3>1 DEF NeverEmptied, worker, files
  <2>13. CASE UNCHANGED vars
    BY <2>2, <2>13 DEF Ahead, NeverEmptied, vars, worker, files
  <2> QED
    BY <1>2, <2>3, <2>4, <2>5, <2>6, <2>7, <2>8, <2>9, <2>10, <2>11, <2>12, <2>13, <2>14
       DEF Next, Worker, Mux, Player
<1> QED
  BY <1>1, <1>2

(* A player opens the segments in order and none twice while nobody removes  *)
(* the directory, if rounds lose only newest segments and the files kept     *)
(* hold two windows (dazn.php:135-156).                                      *)
THEOREM TailPlaysInOrder ==
  ASSUME KeepsEnough
  PROVE  TailSpec => PlayInOrder
<1> DEFINE Inv == IInv /\ StoreInv /\ AgeInv /\ StreamInv /\ PlayInv
<1>1. Init => Inv
  <2>1. Init => PlayInv
    BY DEF Init, PlayInv, Ahead, NeverEmptied, NoPlayer, CompletedBase
  <2> QED
    BY <2>1, InitIInv, InitStoreInv, InitStreamInv
<1>2. Inv /\ [Next /\ TailFailures]_vars => Inv'
  <2>1. [Next /\ TailFailures]_vars => [Next]_vars
    OBVIOUS
  <2> QED
    BY <2>1, StepIInv, StepStoreInv, StepAgeInv, StepStreamInv, StepPlayInv
<1>3. Inv /\ [Next /\ TailFailures]_vars =>
        [removals = 0 /\ 0 < ffmpeg.last /\ ffmpeg'.left # ffmpeg.left
           /\ ffmpeg' # NoPlayer => ffmpeg.last < ffmpeg'.last]_vars
  <2> SUFFICES ASSUME Inv, Next, removals = 0, 0 < ffmpeg.last,
                      ffmpeg'.left # ffmpeg.left, ffmpeg' # NoPlayer
               PROVE  ffmpeg.last < ffmpeg'.last
    BY DEF vars
  <2>1. ffmpeg # NoPlayer
    BY DEF NoPlayer
  <2>2. PICK n \in ffmpeg.left : Play(n)
    BY <2>1 DEF Next, Worker, Clean, MakeParts, MakeFinal, Start, ForceStopped, Fetch,
                DownloadAudio, DownloadVideo, Mux, Skip, Combine, Drop, UpdateSegments,
                StartPlaylist, ClearSegments, StopReads, Stop, StopUnlinks,
                StopRemovesFinal, StopRemovesRest, StopRemovesHls, Player, PlayerEnds,
                PlayerCrashes, worker, files
  <2> QED
    BY <2>2 DEF Play, PlayInv, Ahead
<1> HIDE DEF Inv
<1> QED
  BY <1>1, <1>2, <1>3, PTL DEF TailSpec, PlayInOrder

=============================================================================
