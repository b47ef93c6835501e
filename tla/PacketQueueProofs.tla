------------------------- MODULE PacketQueueProofs -------------------------
(***************************************************************************)
(* Proofs about PacketQueue, for every set of events, every setting and    *)
(* every number of packets.                                                *)
(***************************************************************************)
EXTENDS PacketQueue, IntegerSets, FiniteSetTheorems, TLAPS

-----------------------------------------------------------------------------
(* Sets of integers *)

\* A set with at least k elements has a k-th largest one: the largest of those
\* that have k elements at or above them.
LEMMA NthLastProperty ==
  ASSUME NEW S, S \subseteq Nat, NEW b \in Nat, \A i \in S : i <= b,
         NEW k \in Nat \ {0}, Cardinality(S) >= k
  PROVE  /\ NthLast(S, k) \in S
         /\ Cardinality({j \in S : j >= NthLast(S, k)}) = k
<1> DEFINE Above(i) == {j \in S : j >= i}
           T == {i \in S : Cardinality(Above(i)) >= k}
<1>1. IsFiniteSet(S) /\ Cardinality(S) \in Nat
  BY FS_BoundedSetOfNaturals, FS_CardinalityType
<1>2. S # {}
  BY <1>1, FS_EmptySet
<1>3. \A i \in S : IsFiniteSet(Above(i)) /\ Cardinality(Above(i)) \in Nat
  <2>1. TAKE i \in S
  <2>2. Above(i) \in SUBSET S
    OBVIOUS
  <2>3. IsFiniteSet(Above(i))
    BY <2>2, <1>1, FS_Subset
  <2> QED
    BY <2>3, FS_CardinalityType
<1>4. T # {}
  <2>1. Min(S) \in S /\ \A j \in S : Min(S) <= j
    BY <1>2, MinProperty
  <2>2. Above(Min(S)) = S
    BY <2>1
  <2>3. Min(S) \in T
    BY <2>1, <2>2
  <2> QED
    BY <2>3
<1>5. T \subseteq Nat /\ \A i \in T : i <= b
  OBVIOUS
<1> HIDE DEF T
<1>6. PICK m \in T : \A j \in T : j <= m
  BY <1>4, <1>5, MaxProperty
<1>7. m \in S /\ m \in Nat /\ Cardinality(Above(m)) >= k
  BY <1>6 DEF T
<1>8. Cardinality(Above(m)) = k
  <2>1. SUFFICES ASSUME Cardinality(Above(m)) > k PROVE FALSE
    BY <1>3, <1>7
  <2> DEFINE Rest == Above(m) \ {m}
  <2>2. m \in Above(m)
    BY <1>7
  <2>3. IsFiniteSet(Rest) /\ Cardinality(Rest) = Cardinality(Above(m)) - 1
    BY <2>2, <1>3, <1>7, FS_RemoveElement
  <2>4. Cardinality(Rest) >= k
    BY <2>1, <2>3, <1>3, <1>7
  <2>5. Rest # {}
    BY <2>4, FS_EmptySet
  <2>6. Rest \subseteq Nat
    OBVIOUS
  <2>7. Min(Rest) \in Rest /\ \A j \in Rest : Min(Rest) <= j
    BY <2>5, <2>6, MinProperty
  <2>8. PICK r \in Rest : \A j \in Rest : r <= j
    BY <2>7
  <2>9. r \in S /\ r \in Nat /\ r > m
    BY <2>8, <1>7
  <2>10. Above(r) = Rest
    <3>1. \A j \in S : j \in Nat /\ (j >= r => j >= m /\ j # m)
      BY <2>9, <1>7
    <3>2. Above(r) \subseteq Rest
      BY <3>1
    <3>3. Rest \subseteq Above(r)
      BY <2>8, <2>9
    <3> QED
      BY <3>2, <3>3
  <2>11. r \in T
    BY <2>9, <2>10, <2>4 DEF T
  <2> QED
    BY <2>9, <2>11, <1>6, <1>7
<1>9. \E i \in S : Cardinality({j \in S : j >= i}) = k
  BY <1>7, <1>8
<1> QED
  BY <1>9 DEF NthLast

-----------------------------------------------------------------------------
(* Counting packets.  VideoOf and AudioOf are Video and Audio of any sequence, *)
(* so that the lemmas serve the queue before and after a step.                 *)

VideoOf(p, a, b) == {i \in a .. b : p[i] # "audio"}
AudioOf(p, a, b) == {i \in a .. b : ~(p[i] # "audio")}

\* Part of an interval is finite.
LEMMA PartFinite ==
  ASSUME NEW a \in Int, NEW b \in Int, NEW S, S \subseteq a .. b
  PROVE  IsFiniteSet(S) /\ Cardinality(S) \in Nat
         /\ Cardinality(S) <= IF a > b THEN 0 ELSE b - a + 1
<1>1. IsFiniteSet(a .. b) /\ Cardinality(a .. b) = IF a > b THEN 0 ELSE b - a + 1
  BY FS_Interval
<1>2. S \in SUBSET (a .. b)
  OBVIOUS
<1>3. IsFiniteSet(S) /\ Cardinality(S) <= Cardinality(a .. b)
  BY <1>1, <1>2, FS_Subset
<1> QED
  BY <1>1, <1>3, FS_CardinalityType

\* The size of two sets with nothing in common.
LEMMA CardinalitySplit ==
  ASSUME NEW S, NEW T, IsFiniteSet(S), IsFiniteSet(T), S \cap T = {}
  PROVE  Cardinality(S \cup T) = Cardinality(S) + Cardinality(T)
<1>1. Cardinality(S) \in Nat /\ Cardinality(T) \in Nat
  BY FS_CardinalityType
<1>2. Cardinality(S \cap T) = 0
  BY FS_EmptySet
<1>3. Cardinality(S \cup T) = Cardinality(S) + Cardinality(T) - Cardinality(S \cap T)
  BY FS_Union
<1> QED
  BY <1>1, <1>2, <1>3

\* Counting a stretch of packets is counting its two parts.
LEMMA CountSplit ==
  ASSUME NEW p, NEW a \in Int, NEW b \in Int, NEW m \in Int, a <= m, m <= b + 1
  PROVE  /\ Cardinality(VideoOf(p, a, b))
              = Cardinality(VideoOf(p, a, m - 1)) + Cardinality(VideoOf(p, m, b))
         /\ Cardinality(AudioOf(p, a, b))
              = Cardinality(AudioOf(p, a, m - 1)) + Cardinality(AudioOf(p, m, b))
<1>1. /\ VideoOf(p, a, b) = VideoOf(p, a, m - 1) \cup VideoOf(p, m, b)
      /\ AudioOf(p, a, b) = AudioOf(p, a, m - 1) \cup AudioOf(p, m, b)
  BY DEF VideoOf, AudioOf
<1>2. /\ VideoOf(p, a, m - 1) \subseteq a .. (m - 1) /\ VideoOf(p, m, b) \subseteq m .. b
      /\ AudioOf(p, a, m - 1) \subseteq a .. (m - 1) /\ AudioOf(p, m, b) \subseteq m .. b
  BY DEF VideoOf, AudioOf
<1> DEFINE V1 == VideoOf(p, a, m - 1)
           V2 == VideoOf(p, m, b)
           A1 == AudioOf(p, a, m - 1)
           A2 == AudioOf(p, m, b)
<1>3. IsFiniteSet(V1) /\ IsFiniteSet(V2) /\ IsFiniteSet(A1) /\ IsFiniteSet(A2)
  <2>1. m - 1 \in Int
    OBVIOUS
  <2> QED
    BY <2>1, <1>2, PartFinite
<1>6. V1 \cap V2 = {} /\ A1 \cap A2 = {}
  BY <1>2
<1> HIDE DEF V1, V2, A1, A2
<1>4. Cardinality(V1 \cup V2) = Cardinality(V1) + Cardinality(V2)
  BY <1>3, <1>6, CardinalitySplit
<1>5. Cardinality(A1 \cup A2) = Cardinality(A1) + Cardinality(A2)
  BY <1>3, <1>6, CardinalitySplit
<1> QED
  BY <1>1, <1>4, <1>5 DEF V1, V2, A1, A2

\* The number of video or audio packets in a stretch is a natural number, and
\* at most the length of the stretch.
LEMMA CountType ==
  ASSUME NEW p, NEW a \in Int, NEW b \in Int
  PROVE  /\ Cardinality(VideoOf(p, a, b)) \in Nat
         /\ Cardinality(AudioOf(p, a, b)) \in Nat
         /\ Cardinality(VideoOf(p, a, b)) <= IF a > b THEN 0 ELSE b - a + 1
BY PartFinite DEF VideoOf, AudioOf

\* A stretch with a video packet in it counts one.
LEMMA CountPositive ==
  ASSUME NEW p, NEW a \in Int, NEW b \in Int, NEW i \in a .. b, p[i] # "audio"
  PROVE  Cardinality(VideoOf(p, a, b)) > 0
<1>1. i \in VideoOf(p, a, b)
  BY DEF VideoOf
<1>2. IsFiniteSet(VideoOf(p, a, b)) /\ Cardinality(VideoOf(p, a, b)) \in Nat
  BY PartFinite DEF VideoOf
<1> QED
  BY <1>1, <1>2, FS_EmptySet

\* One more packet at the end.
LEMMA CountAppend ==
  ASSUME NEW p \in Seq({"key", "delta", "audio"}), NEW kind \in {"key", "delta", "audio"},
         NEW a \in 1 .. Len(p) + 1
  PROVE  /\ Cardinality(VideoOf(Append(p, kind), a, Len(p) + 1))
              = Cardinality(VideoOf(p, a, Len(p))) + (IF kind = "audio" THEN 0 ELSE 1)
         /\ Cardinality(AudioOf(Append(p, kind), a, Len(p) + 1))
              = Cardinality(AudioOf(p, a, Len(p))) + (IF kind = "audio" THEN 1 ELSE 0)
<1> DEFINE n == Len(p) + 1
           q == Append(p, kind)
<1>1. n \in Nat /\ q[n] = kind /\ \A i \in 1 .. Len(p) : q[i] = p[i]
  OBVIOUS
<1>2. /\ VideoOf(q, a, n - 1) = VideoOf(p, a, Len(p))
      /\ AudioOf(q, a, n - 1) = AudioOf(p, a, Len(p))
  BY <1>1 DEF VideoOf, AudioOf
<1>3. /\ VideoOf(q, n, n) = IF kind = "audio" THEN {} ELSE {n}
      /\ AudioOf(q, n, n) = IF kind = "audio" THEN {n} ELSE {}
  BY <1>1 DEF VideoOf, AudioOf
<1>4. /\ Cardinality(VideoOf(q, n, n)) = IF kind = "audio" THEN 0 ELSE 1
      /\ Cardinality(AudioOf(q, n, n)) = IF kind = "audio" THEN 1 ELSE 0
  BY <1>3, FS_EmptySet, FS_Singleton
<1>5. a \in Int /\ n \in Int /\ a <= n /\ n <= n + 1
  BY <1>1
<1> HIDE DEF n, q
<1>6. /\ Cardinality(VideoOf(q, a, n))
           = Cardinality(VideoOf(q, a, n - 1)) + Cardinality(VideoOf(q, n, n))
      /\ Cardinality(AudioOf(q, a, n))
           = Cardinality(AudioOf(q, a, n - 1)) + Cardinality(AudioOf(q, n, n))
  BY <1>5, CountSplit
<1>7. /\ Cardinality(VideoOf(q, a, n))
           = Cardinality(VideoOf(p, a, Len(p))) + (IF kind = "audio" THEN 0 ELSE 1)
      /\ Cardinality(AudioOf(q, a, n))
           = Cardinality(AudioOf(p, a, Len(p))) + (IF kind = "audio" THEN 1 ELSE 0)
  BY <1>6, <1>2, <1>4
<1> QED
  BY <1>7 DEF n, q

-----------------------------------------------------------------------------
(* Where the operations of the queue may put its front and an event *)

\* The counts of the queue are those of the sequence of its packets.
LEMMA CountsAreCounts ==
  ASSUME NEW a, NEW b
  PROVE  /\ VideoCount(a, b) = Cardinality(VideoOf(pkts, a, b))
         /\ AudioCount(a, b) = Cardinality(AudioOf(pkts, a, b))
BY DEF VideoCount, AudioCount, Video, Audio, IsVideo, VideoOf, AudioOf

\* An overflow moves the front to a keyframe inside the queue, or nowhere.
LEMMA OverflowFrontProperty ==
  ASSUME TypeOK, NEW counts
  PROVE  \/ OverflowFront(counts) = front
         \/ OverflowFront(counts) \in front + 1 .. Last /\ IsKey(OverflowFront(counts))
<1> DEFINE K == Keys(front + 1, Last)
<1>1. K \subseteq Nat
  BY DEF Keys, TypeOK
<1>2. CASE OverflowFront(counts) = front
  BY <1>2
<1>3. CASE OverflowFront(counts) # front
  <2>1. K # {} /\ OverflowFront(counts) = Min(K)
    BY <1>3 DEF OverflowFront
  <2> HIDE DEF K
  <2>2. Min(K) \in K
    BY <2>1, <1>1, MinProperty
  <2> QED
    BY <2>1, <2>2 DEF K, Keys
<1> QED
  BY <1>2, <1>3

\* Within Analyse, analysis_it is on a queued packet: the analysed one, or the
\* front if that one has been overflowed away.
LEMMA AnalysisIterator ==
  ASSUME QueueInv, step # "idle"
  PROVE  /\ "analysis" \in iterators /\ pos["analysis"] \in front .. Last
         /\ Analysed \in Nat /\ Analysed <= pos["analysis"]
         /\ Analysed < front => pos["analysis"] = front
<1>1. /\ "analysis" \in iterators /\ pos["analysis"] # End
      /\ Analysed >= front => pos["analysis"] = Analysed
  BY DEF QueueInv, ThreadsCoherent
<1>2. pos["analysis"] \in front .. Last
  BY <1>1 DEF QueueInv, IteratorsValid
<1>3. Analysed < front => pos["analysis"] = front
  BY DEF QueueInv, ErasedPacketIsBehindFront
<1>4. Analysed \in Nat /\ front \in Nat /\ Last \in Nat
  BY DEF QueueInv, TypeOK, Last, Iterators, Threads, Analysed
<1> QED
  BY <1>1, <1>2, <1>3, <1>4

\* clearPackets without keyframes: the new front passes no iterator and not the
\* analysed packet, and leaves the pre-event window and what follows in the queue.
LEMMA TrimmedFrontProperty ==
  ASSUME QueueInv, step = "clear",
         NEW f, f = TrimmedFront(Analysed), f # front
  PROVE  /\ f \in front + 1 .. Last
         /\ f <= Analysed
         /\ \A q \in Pinned : f <= q
         /\ packet_counts.video - VideoCount(front, f - 1) > 0
         /\ packet_counts.video - VideoCount(front, f - 1) >= cfg.pre + TailCount(Analysed)
<1> DEFINE p == Analysed
           ok(g) == /\ g # p
                    /\ packet_counts.video - VideoCount(front, g - 1) > cfg.pre + TailCount(p)
                    /\ BeforeIterators(g)
           W == {g \in front .. Last + 1 : g > Last \/ ~ok(g)}
<1>1. /\ front \in Nat /\ Last \in Nat /\ front >= 1 /\ front <= Last + 1
      /\ p \in Nat /\ cfg.pre \in Nat /\ packet_counts.video \in Nat
  BY DEF QueueInv, TypeOK, Last, Iterators, Threads, Analysed
<1>2. "analysis" \in iterators /\ pos["analysis"] \in front .. Last
      /\ p <= pos["analysis"] /\ (p < front => pos["analysis"] = front)
  BY AnalysisIterator
<1>3. pos["analysis"] \in Pinned
  BY <1>2, <1>1 DEF Pinned, End
<1>4. f = Min(W)
  BY DEF TrimmedFront
<1>5. W \subseteq Nat /\ Last + 1 \in W
  BY <1>1
<1>6. f \in W /\ \A g \in W : f <= g
  <2> HIDE DEF W
  <2> QED
    BY <1>4, <1>5, MinProperty
<1>7. f \in front + 1 .. Last + 1 /\ f - 1 \in front .. Last /\ f - 1 \notin W
  BY <1>6, <1>1
<1>8. ok(f - 1)
  BY <1>7, <1>1
<1>9. \A q \in Pinned : q \in Nat /\ f <= q
  <2>1. \A q \in Pinned : f - 1 < q /\ q \in Nat
    BY <1>8 DEF BeforeIterators, Pinned, QueueInv, TypeOK
  <2> QED
    BY <2>1, <1>7, <1>1
<1>10. f <= pos["analysis"]
  BY <1>9, <1>3
<1>11. p >= front
  BY <1>10, <1>2, <1>1, <1>7
<1>12. f <= p
  <2>1. p \in W
    BY <1>11, <1>2, <1>1
  <2> QED
    BY <2>1, <1>6
<1>13. /\ packet_counts.video - VideoCount(front, f - 1) > 0
       /\ packet_counts.video - VideoCount(front, f - 1) >= cfg.pre + TailCount(p)
  <2>1. /\ VideoCount(front, f - 1) \in Nat /\ VideoCount(front, f - 2) \in Nat
        /\ VideoCount(f - 1, f - 1) \in Nat /\ VideoCount(f - 1, f - 1) <= 1
        /\ TailCount(p) \in Nat
    BY CountsAreCounts, CountType, <1>1, <1>7 DEF TailCount
  <2>2. VideoCount(front, f - 1) = VideoCount(front, f - 2) + VideoCount(f - 1, f - 1)
    <3>1. /\ f - 1 \in Int /\ front \in Int /\ front <= f - 1 /\ f - 1 <= (f - 1) + 1
          /\ (f - 1) - 1 = f - 2
      BY <1>7, <1>1
    <3> QED
      BY <3>1, CountSplit, CountsAreCounts
  <2>3. packet_counts.video - VideoCount(front, f - 2) > cfg.pre + TailCount(p)
    <3>1. (f - 1) - 1 = f - 2
      BY <1>7, <1>1
    <3> QED
      BY <3>1, <1>8
  <2>4. cfg.pre >= 1
    BY DEF QueueInv, TypeOK
  <2> QED
    BY <2>1, <2>2, <2>3, <2>4, <1>1
<1> QED
  BY <1>7, <1>9, <1>10, <1>12, <1>13, <1>2, <1>1

\* clearPackets with keyframes: the same, and the new front is a keyframe.
LEMMA NextFrontProperty ==
  ASSUME QueueInv, step = "clear",
         NEW f, f = NextFront(Analysed), f # front
  PROVE  /\ f \in front + 1 .. Last /\ IsKey(f)
         /\ f <= Analysed
         /\ \A q \in Pinned : f <= q
         /\ f \in NextFronts(Analysed)
<1> DEFINE p == Analysed
           K == NextFronts(p)
<1>1. /\ front \in Nat /\ Last \in Nat /\ front >= 1 /\ front <= Last + 1 /\ p \in Nat
  BY DEF QueueInv, TypeOK, Last, Iterators, Threads, Analysed
<1>2. "analysis" \in iterators /\ pos["analysis"] \in front .. Last
      /\ p <= pos["analysis"] /\ (p < front => pos["analysis"] = front)
  BY AnalysisIterator
<1>3. pos["analysis"] \in Pinned
  BY <1>2, <1>1 DEF Pinned, End
<1>4. K # {} /\ f = Max(K)
  BY DEF NextFront
<1>5. K \subseteq Nat /\ \A k \in K : k <= Last
  BY <1>1 DEF NextFronts, Keys
<1>6. f \in K
  <2> HIDE DEF K
  <2> QED
    BY <1>1, <1>4, <1>5, MaxProperty
<1>7. /\ f \in front + 1 .. Last /\ IsKey(f) /\ ~(p \in front .. f)
      /\ \A q \in Pinned : f <= q
  BY <1>6 DEF NextFronts, Keys
<1>8. p >= front
  BY <1>7, <1>3, <1>2, <1>1
<1> QED
  BY <1>6, <1>7, <1>8, <1>1

\* An event starts on a queued packet no later than the snapshot, and not
\* before the boundary.
LEMMA EventStartProperty ==
  ASSUME TypeOK, NEW s \in Nat, front <= s, s <= Last, NEW n \in Nat, NEW boundary \in Nat
  PROVE  /\ EventStart(s, n, boundary) \in front .. s
         /\ boundary <= s => boundary <= EventStart(s, n, boundary)
<1> DEFINE low == Max({front, Min({s, boundary})})
           reached == WalkBack(s, n, low)
           keys == Keys(low + 1, reached)
<1>1. front \in Nat
  BY DEF TypeOK
<1>2. Min({s, boundary}) \in Nat /\ Min({s, boundary}) <= s
  BY MinOfTwo
<1>3. low \in Nat /\ front <= low /\ low <= s
  BY <1>1, <1>2, MaxOfTwo
<1>10. boundary <= s => boundary <= low
  <2>1. boundary <= s => Min({s, boundary}) = boundary
    BY MinOfTwo
  <2> QED
    BY <2>1, <1>1, <1>2, MaxOfTwo
<1> HIDE DEF low
<1>4. reached \in Nat /\ low <= reached /\ reached <= s
  <2> DEFINE window == Video(low + 1, s)
  <2>1. CASE n = 0
    BY <2>1, <1>3 DEF WalkBack
  <2>2. CASE n # 0 /\ ~(Cardinality(window) >= n)
    BY <2>2, <1>3 DEF WalkBack
  <2>3. CASE n # 0 /\ Cardinality(window) >= n
    <3>1. window \subseteq Nat /\ \A i \in window : i <= s /\ i >= low + 1
      BY <1>3 DEF Video
    <3>2. reached = NthLast(window, n) - 1
      BY <2>3 DEF WalkBack
    <3> HIDE DEF window
    <3>3. NthLast(window, n) \in window
      BY <3>1, <2>3, NthLastProperty
    <3>4. PICK x \in window : x = NthLast(window, n)
      BY <3>3
    <3>5. x \in Nat /\ x <= s /\ x >= low + 1 /\ reached = x - 1
      BY <3>1, <3>2, <3>4
    <3> QED
      BY <3>5, <1>3
  <2> QED
    BY <2>1, <2>2, <2>3
<1> HIDE DEF reached
<1>5. StartAtLow(s, low) \in low .. s
  <2> DEFINE K == Keys(low, s)
  <2>1. K \subseteq Nat /\ K \subseteq low .. s
    BY <1>3 DEF Keys
  <2>2. StartAtLow(s, low) = low \/ (K # {} /\ StartAtLow(s, low) = Min(K))
    BY DEF StartAtLow
  <2> HIDE DEF K
  <2>3. K # {} => Min(K) \in K
    BY <2>1, MinProperty
  <2>4. K # {} => Min(K) \in low .. s
    BY <2>1, <2>3
  <2>5. low \in low .. s
    BY <1>3
  <2> QED
    BY <2>2, <2>4, <2>5
<1>6. keys # {} => Max(keys) \in low .. s
  <2>1. keys \subseteq Nat /\ keys \subseteq low .. s /\ \A i \in keys : i <= s
    BY <1>3, <1>4 DEF Keys
  <2> HIDE DEF keys
  <2>2. keys # {} => Max(keys) \in keys
    BY <2>1, MaxProperty
  <2> QED
    BY <2>1, <2>2
<1>7. \/ EventStart(s, n, boundary) = StartAtLow(s, low)
      \/ EventStart(s, n, boundary) = reached
      \/ keys # {} /\ EventStart(s, n, boundary) = Max(keys)
  BY DEF EventStart, low, reached
<1>8. reached \in low .. s
  BY <1>3, <1>4
<1> HIDE DEF keys
<1>9. EventStart(s, n, boundary) \in low .. s
  BY <1>5, <1>6, <1>7, <1>8
<1> QED
  BY <1>1, <1>3, <1>9, <1>10

-----------------------------------------------------------------------------
(* The invariant, action by action *)

\* The constants keep the names of threads and events apart.
LEMMA NamesApart ==
  /\ "analysis" \in Iterators /\ "decoder" \in Iterators /\ Events \subseteq Iterators
  /\ "analysis" \notin Events /\ "decoder" \notin Events
  /\ None \notin Iterators /\ "analysis" # "decoder"
BY EventsAssumption DEF Iterators, Threads, None

\* A step that leaves the packets, the front, the counts and the settings alone
\* keeps what is said of them.
LEMMA QuietQueue ==
  ASSUME CountsExact, FrontIsKeyframe, UNCHANGED <<pkts, front, packet_counts, cfg>>
  PROVE  CountsExact' /\ FrontIsKeyframe'
BY DEF CountsExact, FrontIsKeyframe, VideoCount, AudioCount, Video, Audio, IsVideo,
       IsKey, Last, Empty

\* The initial state satisfies the invariant.
LEMMA InitInv == Init => QueueInv
<1> SUFFICES ASSUME Init PROVE QueueInv
  OBVIOUS
<1>1. cfg \in [pre: Nat \ {0}, max: Nat, keep: BOOLEAN]
  <2>1. PICK s \in Settings : cfg = Loaded(s)
    BY DEF Init
  <2>2. s \in [pre: Int, max: Int, keep: BOOLEAN]
    BY <2>1, SettingsAssumption
  <2> QED
    BY <2>1, <2>2 DEF Loaded
<1>2. Last = 0 /\ Empty
  BY DEF Init, Last, Empty
<1>3. TypeOK
  <2>1. pkts \in Seq({"key", "delta", "audio"}) /\ iterators \subseteq Iterators
    BY DEF Init
  <2>2. pos \in [Iterators -> Nat] /\ hold \in [Iterators -> Nat]
    BY DEF Init, End
  <2>3. /\ packet_counts \in [video: Nat, audio: Nat]
        /\ gop \in [since: Nat, max: Nat, over: BOOLEAN]
    BY DEF Init
  <2>4. /\ front \in 1 .. Last + 1 /\ first_queue_index_ \in 1 .. Last + 1
        /\ streams \in 0 .. 2 /\ released_before_ \in Nat /\ capped_before_ \in Nat
        /\ snap \in Nat
    BY <1>2 DEF Init
  <2>5. /\ deleting \in BOOLEAN /\ clear_packets_pending_ \in BOOLEAN
        /\ event \in Events \cup {None} /\ opening \in Events \cup {None}
        /\ closing \in Events \cup {None}
        /\ step \in {"idle", "analyse", "open", "opened", "clear", "release", "increment"}
    BY DEF Init
  <2> QED
    BY <1>1, <2>1, <2>2, <2>3, <2>4, <2>5 DEF TypeOK
<1>4. CountsExact
  <2>1. Video(1, 0) = {} /\ Audio(1, 0) = {}
    BY DEF Video, Audio
  <2> QED
    BY <1>2, <2>1, FS_EmptySet DEF Init, CountsExact, VideoCount, AudioCount
<1>5. FrontIsKeyframe /\ IteratorsValid
  BY <1>2 DEF Init, FrontIsKeyframe, IteratorsValid
<1>6. ErasedPacketIsBehindFront /\ ThreadsCoherent
  BY <1>2, NamesApart DEF Init, ErasedPacketIsBehindFront, ThreadsCoherent, Analysed
<1> QED
  BY <1>3, <1>4, <1>5, <1>6 DEF QueueInv

\* Reload changes the settings of a queue that is empty.
LEMMA ReloadInv ==
  ASSUME QueueInv, NEW s \in Settings, Reload(s)
  PROVE  QueueInv'
<1>1. s \in [pre: Int, max: Int, keep: BOOLEAN]
  BY SettingsAssumption
<1>2. cfg' \in [pre: Nat \ {0}, max: Nat, keep: BOOLEAN]
  BY <1>1 DEF Reload, Loaded
<1>3. TypeOK'
  BY <1>2 DEF Reload, QueueInv, TypeOK, Last, boundaryVars, analysisVars, eventVars
<1>4. Empty'
  BY DEF Reload, QueueInv, ThreadsCoherent, Empty, Last
<1>5. CountsExact' /\ FrontIsKeyframe'
  BY <1>4 DEF Reload, QueueInv, CountsExact, FrontIsKeyframe, VideoCount, AudioCount,
     Video, Audio, IsVideo, Last
<1>6. IteratorsValid' /\ ErasedPacketIsBehindFront' /\ ThreadsCoherent'
  BY DEF Reload, QueueInv, IteratorsValid, ErasedPacketIsBehindFront, ThreadsCoherent,
     Analysed, Empty, Last, boundaryVars, analysisVars, eventVars
<1> QED
  BY <1>3, <1>5, <1>6 DEF QueueInv

\* PrimeCapture counts the empty queue from zero and registers the iterators.
LEMMA PrimeCaptureInv ==
  ASSUME QueueInv, NEW n \in Cameras, PrimeCapture(n)
  PROVE  QueueInv'
<1>1. Empty /\ Empty' /\ n \in 1 .. 2
  BY CamerasAssumption DEF PrimeCapture, QueueInv, ThreadsCoherent, Empty, Last
<1>2. TypeOK'
  <2>1. iterators' \subseteq Iterators
    BY NamesApart DEF PrimeCapture, QueueInv, TypeOK
  <2>2. streams' \in 0 .. 2 /\ packet_counts' \in [video: Nat, audio: Nat]
    BY <1>1 DEF PrimeCapture
  <2> QED
    BY <2>1, <2>2 DEF PrimeCapture, QueueInv, TypeOK, Last, boundaryVars, analysisVars, eventVars
<1>3. CountsExact'
  <2>1. /\ Video(front, Last)' = {} /\ Audio(front, Last)' = {}
    BY <1>1, <1>2, SMTT(60) DEF Video, Audio, Empty, TypeOK, Last
  <2> QED
    BY <2>1, FS_EmptySet DEF PrimeCapture, CountsExact, VideoCount, AudioCount
<1>4. FrontIsKeyframe'
  BY <1>1 DEF FrontIsKeyframe
<1>5. IteratorsValid' /\ ErasedPacketIsBehindFront' /\ ThreadsCoherent'
  BY <1>1, NamesApart DEF PrimeCapture, QueueInv, IteratorsValid, ErasedPacketIsBehindFront, ThreadsCoherent,
     Analysed, Empty, Last, boundaryVars, analysisVars, eventVars, End
<1> QED
  BY <1>2, <1>3, <1>4, <1>5 DEF QueueInv

\* Stopping the queue and handing the event to the closing thread touch neither
\* packets nor iterators.
LEMMA StopInv ==
  ASSUME QueueInv, Stop \/ PauseClosesEvent \/ CloseEvent
  PROVE  QueueInv'
<1> USE DEF Stop, PauseClosesEvent, CloseEvent, queueVars, boundaryVars, analysisVars, eventVars
<1>1. TypeOK'
  BY DEF QueueInv, TypeOK, Last
<1>2. CountsExact' /\ FrontIsKeyframe'
  BY QuietQueue DEF QueueInv
<1>3. IteratorsValid' /\ ErasedPacketIsBehindFront' /\ ThreadsCoherent'
  BY DEF QueueInv, IteratorsValid, ErasedPacketIsBehindFront, ThreadsCoherent, Analysed, Empty, Last
<1> QED
  BY <1>1, <1>2, <1>3 DEF QueueInv

\* The readers move their own iterators, one packet at a time.
LEMMA ReaderInv ==
  ASSUME QueueInv, NEW r \in Iterators, ReaderGet(r) \/ ReaderIncrement(r) \/ ReaderRetry(r)
  PROVE  QueueInv'
<1> USE DEF queueVars, boundaryVars, analysisVars, eventVars
<1>1. r # "analysis"
  BY NamesApart DEF ReaderGet, ReaderIncrement, ReaderRetry, Readers, QueueInv, TypeOK
<1>2. /\ UNCHANGED <<pkts, front, packet_counts, cfg, iterators, gop, streams, deleting,
                     clear_packets_pending_, first_queue_index_, boundaryVars,
                     analysisVars, eventVars>>
      /\ hold' \in [Iterators -> Nat] /\ hold'["analysis"] = hold["analysis"]
  <2>1. hold \in [Iterators -> Nat] /\ pos[r] \in Nat
    BY DEF QueueInv, TypeOK
  <2>2. hold' = [hold EXCEPT ![r] = pos[r]] \/ hold' = [hold EXCEPT ![r] = 0]
    BY DEF ReaderGet, ReaderIncrement, ReaderRetry
  <2>3. hold' \in [Iterators -> Nat] /\ hold'["analysis"] = hold["analysis"]
    BY <2>1, <2>2, <1>1, NamesApart
  <2> QED
    BY <2>3 DEF ReaderGet, ReaderIncrement, ReaderRetry
<1>3. /\ pos' \in [Iterators -> Nat] /\ pos'["analysis"] = pos["analysis"]
      /\ \A i \in Iterators : i # r => pos'[i] = pos[i]
      /\ r \notin iterators => pos'[r] = End
      /\ r \in iterators => pos'[r] = End \/ pos'[r] \in front .. Last
  <2>1. pos[r] \in Nat /\ front \in Nat /\ Last \in Nat
    BY DEF QueueInv, TypeOK, Last
  <2>2. pos[r] = End \/ (r \in iterators /\ pos[r] \in front .. Last)
    BY DEF QueueInv, ThreadsCoherent, IteratorsValid
  <2>3. /\ Incremented(r) \in Nat
        /\ pos[r] = End => Incremented(r) = End
        /\ pos[r] # End => Incremented(r) = End \/ Incremented(r) \in front .. Last
    BY <2>1, <2>2 DEF Incremented, End
  <2>4. CASE pos' = pos
    BY <2>4, <2>1, <2>2 DEF QueueInv, TypeOK
  <2>5. CASE pos' = [pos EXCEPT ![r] = Incremented(r)]
    BY <2>5, <2>2, <2>3, <1>1 DEF QueueInv, TypeOK
  <2> QED
    BY <2>4, <2>5 DEF ReaderGet, ReaderIncrement, ReaderRetry
<1>4. TypeOK'
  BY <1>2, <1>3 DEF QueueInv, TypeOK, Last
<1>5. CountsExact' /\ FrontIsKeyframe'
  BY <1>2, QuietQueue DEF QueueInv
<1>6. IteratorsValid'
  BY <1>2, <1>3 DEF QueueInv, TypeOK, IteratorsValid, Last
<1>7. ErasedPacketIsBehindFront'
  BY <1>2, <1>3 DEF QueueInv, ErasedPacketIsBehindFront, Analysed
<1>8. ThreadsCoherent'
  BY <1>2, <1>3 DEF QueueInv, ThreadsCoherent, Analysed, Empty, Last
<1> QED
  BY <1>4, <1>5, <1>6, <1>7, <1>8 DEF QueueInv

\* An event's iterator is unregistered, by the end of the event or because the
\* event could not be opened.
LEMMA FreeItInv ==
  ASSUME QueueInv, FreeIt \/ NoStartingPacket
  PROVE  QueueInv'
<1> USE DEF queueVars, boundaryVars, analysisVars, eventVars
<1>1. PICK e \in Events \cup {None} :
        /\ iterators' = iterators \ {e} /\ pos' = [pos EXCEPT ![e] = End]
  BY DEF FreeIt, NoStartingPacket, QueueInv, TypeOK
<1>2. e # "analysis"
  BY NamesApart, <1>1
<1>3. UNCHANGED <<pkts, front, packet_counts, cfg, gop, streams, deleting, hold,
                  clear_packets_pending_, first_queue_index_, boundaryVars, event>>
  BY DEF FreeIt, NoStartingPacket
<1>4. /\ pos' \in [Iterators -> Nat] /\ pos'["analysis"] = pos["analysis"]
      /\ \A i \in Iterators : pos'[i] = IF i = e THEN End ELSE pos[i]
  BY <1>1, <1>2, NamesApart DEF QueueInv, TypeOK, End
<1>5. /\ step' = step \/ (step = "opened" /\ step' \in {"clear", "increment"})
      /\ step' = "open" => UNCHANGED snap
      /\ snap' \in Nat /\ opening' \in Events \cup {None} /\ closing' \in Events \cup {None}
  BY DEF FreeIt, NoStartingPacket, AfterEvents, QueueInv, TypeOK
<1>6. TypeOK'
  BY <1>1, <1>3, <1>4, <1>5 DEF QueueInv, TypeOK, Last
<1>7. CountsExact' /\ FrontIsKeyframe'
  BY <1>3, QuietQueue DEF QueueInv
<1>8. IteratorsValid'
  BY <1>1, <1>3, <1>4 DEF QueueInv, TypeOK, IteratorsValid, Last
<1>9. ErasedPacketIsBehindFront'
  BY <1>3, <1>4, <1>5 DEF QueueInv, ErasedPacketIsBehindFront, Analysed
<1>10. ThreadsCoherent'
  BY <1>1, <1>2, <1>3, <1>4, <1>5, NamesApart DEF QueueInv, ThreadsCoherent, Analysed, Empty, Last
<1> QED
  BY <1>6, <1>7, <1>8, <1>9, <1>10 DEF QueueInv

\* Analyse takes the packet its iterator is on.
LEMMA AnalyseGetInv ==
  ASSUME QueueInv, AnalyseGet
  PROVE  QueueInv'
<1> USE DEF AnalyseGet, queueVars, boundaryVars, analysisVars, eventVars
<1>1. /\ "analysis" \in iterators /\ pos["analysis"] # End
      /\ pos["analysis"] \in front .. Last /\ pos["analysis"] \in Nat /\ front \in Nat
  BY NamesApart DEF CanGet, QueueInv, TypeOK, IteratorsValid
<1>2. Analysed' = pos["analysis"] /\ hold' \in [Iterators -> Nat]
  BY <1>1, NamesApart DEF Analysed, QueueInv, TypeOK
<1>3. TypeOK'
  BY <1>2 DEF QueueInv, TypeOK, Last
<1>4. CountsExact' /\ FrontIsKeyframe'
  BY QuietQueue DEF QueueInv
<1>5. IteratorsValid'
  BY DEF QueueInv, IteratorsValid, Last
<1>6. ErasedPacketIsBehindFront'
  BY <1>1, <1>2 DEF ErasedPacketIsBehindFront
<1>7. ThreadsCoherent'
  BY <1>1, <1>2 DEF QueueInv, ThreadsCoherent, Empty, Last, End
<1> QED
  BY <1>3, <1>4, <1>5, <1>6, <1>7 DEF QueueInv

\* Analyse lets its packet go, stepping over it or not.
LEMMA AnalyseEndInv ==
  ASSUME QueueInv, AnalyseRetry \/ AnalyseIncrement
  PROVE  QueueInv'
<1> USE DEF queueVars, boundaryVars, analysisVars, eventVars
<1>1. /\ UNCHANGED <<pkts, front, packet_counts, cfg, iterators, gop, streams, deleting,
                     clear_packets_pending_, first_queue_index_, boundaryVars, snap,
                     opening, eventVars>>
      /\ hold' \in [Iterators -> Nat] /\ hold'["analysis"] = 0 /\ step' = "idle"
  <2>1. hold \in [Iterators -> Nat] /\ hold' = [hold EXCEPT !["analysis"] = 0]
    BY DEF QueueInv, TypeOK, AnalyseRetry, AnalyseIncrement
  <2>2. hold' \in [Iterators -> Nat] /\ hold'["analysis"] = 0
    BY <2>1, NamesApart
  <2> QED
    BY <2>2 DEF AnalyseRetry, AnalyseIncrement
<1>2. /\ pos' \in [Iterators -> Nat]
      /\ \A i \in Iterators : i # "analysis" => pos'[i] = pos[i]
      /\ pos'["analysis"] = End \/ pos'["analysis"] \in front .. Last
  <2>1. "analysis" \in iterators /\ pos["analysis"] \in front .. Last
    BY AnalysisIterator DEF AnalyseRetry, AnalyseIncrement
  <2>2. front \in Nat /\ Last \in Nat
    BY DEF QueueInv, TypeOK, Last
  <2>3. /\ Incremented("analysis") \in Nat
        /\ Incremented("analysis") = End \/ Incremented("analysis") \in front .. Last
    BY <2>1, <2>2 DEF Incremented, End
  <2>4. pos \in [Iterators -> Nat]
        /\ (pos' = pos \/ pos' = [pos EXCEPT !["analysis"] = Incremented("analysis")])
    BY DEF AnalyseRetry, AnalyseIncrement, QueueInv, TypeOK
  <2> HIDE DEF queueVars, boundaryVars, analysisVars, eventVars
  <2> QED
    BY <2>1, <2>3, <2>4, NamesApart
<1>3. TypeOK'
  BY <1>1, <1>2 DEF QueueInv, TypeOK, Last
<1>4. CountsExact' /\ FrontIsKeyframe'
  BY <1>1, QuietQueue DEF QueueInv
<1>5. IteratorsValid'
  BY <1>1, <1>2 DEF QueueInv, TypeOK, IteratorsValid, Last
<1>6. ErasedPacketIsBehindFront'
  BY <1>1 DEF ErasedPacketIsBehindFront
<1>7. ThreadsCoherent'
  <2>1. "analysis" \in iterators
    BY AnalysisIterator DEF AnalyseRetry, AnalyseIncrement
  <2> QED
    BY <1>1, <1>2, <2>1 DEF QueueInv, ThreadsCoherent, Analysed, Empty, Last
<1> QED
  BY <1>3, <1>4, <1>5, <1>6, <1>7 DEF QueueInv

\* Nothing to do for events, the unlocked read of analysis_it, and the start of
\* the event it leads to leave packets and iterators alone.
LEMMA AnalyseInv ==
  ASSUME QueueInv, NoEventWork \/ ReadAnalysisIt \/ StartEvent
  PROVE  QueueInv'
<1> USE DEF NoEventWork, ReadAnalysisIt, StartEvent, queueVars, boundaryVars, analysisVars,
            eventVars
<1>1. /\ step \in {"analyse", "opened"} /\ step' \in {"open", "clear", "increment"}
      /\ step' = "open" => snap' = pos["analysis"]
      /\ UNCHANGED <<pkts, front, packet_counts, cfg, iterators, pos, gop, streams, deleting,
                     clear_packets_pending_, first_queue_index_, boundaryVars, hold, closing>>
  BY DEF AfterEvents
<1>2. /\ "analysis" \in iterators /\ pos["analysis"] \in front .. Last
      /\ Analysed \in Nat /\ Analysed <= pos["analysis"]
  BY <1>1, AnalysisIterator
<1>3. pos["analysis"] \in Nat /\ front \in Nat /\ Last \in Nat
  BY NamesApart DEF QueueInv, TypeOK, Last
<1>4. snap' \in Nat /\ opening' \in Events \cup {None} /\ event' \in Events \cup {None}
  BY <1>3, SMTT(60) DEF QueueInv, TypeOK
<1>5. TypeOK'
  BY <1>1, <1>4 DEF QueueInv, TypeOK, Last
<1>6. CountsExact' /\ FrontIsKeyframe'
  BY <1>1, QuietQueue DEF QueueInv
<1>7. IteratorsValid'
  BY <1>1 DEF QueueInv, IteratorsValid, Last
<1>8. ErasedPacketIsBehindFront'
  BY <1>1 DEF QueueInv, ErasedPacketIsBehindFront, Analysed
<1>9. ThreadsCoherent'
  <2>1. ~Empty
    BY <1>2, <1>3 DEF Empty
  <2>2. Analysed' = Analysed
    BY <1>1 DEF Analysed
  <2> HIDE DEF NoEventWork, ReadAnalysisIt, StartEvent
  <2> QED
    BY <1>1, <1>2, <1>3, <2>1, <2>2 DEF QueueInv, ThreadsCoherent, Empty, Last
<1> QED
  BY <1>5, <1>6, <1>7, <1>8, <1>9 DEF QueueInv

\* The iterator of a new event is registered on a queued packet.
LEMMA GetEventStartInv ==
  ASSUME QueueInv, NEW e \in Events, NEW n \in {0, cfg.pre}, GetEventStart(e, n)
  PROVE  QueueInv'
<1> USE DEF queueVars, boundaryVars, eventVars
<1>1. /\ step = "open" /\ step' = "opened" /\ opening' = e
      /\ iterators' = iterators \cup {e} /\ e \notin iterators
      /\ pos' = [pos EXCEPT ![e] = EventStart(snap, n, released_before_)]
      /\ UNCHANGED <<pkts, front, packet_counts, cfg, gop, streams, deleting, hold, snap,
                     clear_packets_pending_, first_queue_index_, boundaryVars, eventVars>>
      /\ snap >= front
  BY DEF GetEventStart
<1>2. /\ "analysis" \in iterators /\ pos["analysis"] \in front .. Last
      /\ snap <= pos["analysis"] /\ snap \in Nat /\ n \in Nat /\ front \in Nat /\ Last \in Nat
      /\ released_before_ \in Nat
  BY <1>1, AnalysisIterator DEF QueueInv, TypeOK, ThreadsCoherent, Last
<1>3. snap <= Last
  BY <1>2
<1>4. EventStart(snap, n, released_before_) \in front .. snap
  BY <1>1, <1>2, <1>3, EventStartProperty DEF QueueInv
<1>5. /\ pos' \in [Iterators -> Nat] /\ pos'[e] \in front .. Last
      /\ \A i \in Iterators : i # e => pos'[i] = pos[i]
      /\ pos'["analysis"] = pos["analysis"]
  <2>1. e \in Iterators /\ e # "analysis" /\ pos \in [Iterators -> Nat]
    BY NamesApart DEF QueueInv, TypeOK
  <2>2. EventStart(snap, n, released_before_) \in front .. Last
        /\ EventStart(snap, n, released_before_) \in Nat
    BY <1>2, <1>3, <1>4
  <2> QED
    BY <1>1, <2>1, <2>2, NamesApart
<1>6. TypeOK'
  <2>1. iterators' \subseteq Iterators
    BY <1>1, NamesApart DEF QueueInv, TypeOK
  <2> QED
    BY <1>1, <1>5, <2>1 DEF QueueInv, TypeOK, Last
<1>7. CountsExact' /\ FrontIsKeyframe'
  BY <1>1, QuietQueue DEF QueueInv
<1>8. IteratorsValid'
  <2>1. ASSUME NEW i \in iterators' PROVE pos'[i] = End \/ pos'[i] \in front .. Last
    <3>1. CASE i = e
      BY <3>1, <1>5
    <3>2. CASE i # e
      BY <3>2, <1>1, <1>5 DEF QueueInv, IteratorsValid, TypeOK
    <3> QED
      BY <3>1, <3>2
  <2> QED
    BY <2>1, <1>1 DEF IteratorsValid, Last
<1>9. ErasedPacketIsBehindFront'
  BY <1>1, <1>5 DEF QueueInv, ErasedPacketIsBehindFront, Analysed
<1>10. ThreadsCoherent'
  BY <1>1, <1>5 DEF QueueInv, ThreadsCoherent, Analysed, Empty, Last
<1> QED
  BY <1>6, <1>7, <1>8, <1>9, <1>10 DEF QueueInv

\* A restarted process has an empty queue.
LEMMA StaleSnapshotInv ==
  ASSUME QueueInv, StaleSnapshot
  PROVE  QueueInv'
<1> USE DEF StaleSnapshot
<1>1. Last \in Nat /\ front' = Last + 1 /\ Last' = Last /\ Empty'
  BY DEF QueueInv, TypeOK, Last, Empty
<1>2. TypeOK'
  <2>1. /\ pos' \in [Iterators -> Nat] /\ hold' \in [Iterators -> Nat]
    BY DEF End
  <2>2. /\ packet_counts' \in [video: Nat, audio: Nat]
        /\ gop' \in [since: Nat, max: Nat, over: BOOLEAN]
    OBVIOUS
  <2>3. /\ first_queue_index_' \in 1 .. Last' + 1 /\ front' \in 1 .. Last' + 1
        /\ streams' \in 0 .. 2 /\ released_before_' \in Nat /\ capped_before_' \in Nat
        /\ snap' \in Nat
    BY <1>1
  <2>4. /\ iterators' \subseteq Iterators /\ clear_packets_pending_' \in BOOLEAN
        /\ event' \in Events \cup {None} /\ closing' \in Events \cup {None}
        /\ step' \in {"idle", "analyse", "open", "opened", "clear", "release", "increment"}
    OBVIOUS
  <2>5. /\ pkts' \in Seq({"key", "delta", "audio"}) /\ deleting' \in BOOLEAN
        /\ cfg' \in [pre: Nat \ {0}, max: Nat, keep: BOOLEAN]
        /\ opening' \in Events \cup {None}
    BY DEF QueueInv, TypeOK
  <2> HIDE DEF StaleSnapshot
  <2> QED
    BY <2>1, <2>2, <2>3, <2>4, <2>5 DEF TypeOK
<1>3. CountsExact'
  <2>1. Video(front, Last)' = {} /\ Audio(front, Last)' = {}
    BY <1>1 DEF Video, Audio
  <2> QED
    BY <2>1, FS_EmptySet DEF CountsExact, VideoCount, AudioCount
<1>4. FrontIsKeyframe'
  BY <1>1 DEF FrontIsKeyframe
<1>5. IteratorsValid' /\ ErasedPacketIsBehindFront' /\ ThreadsCoherent'
  BY <1>1, NamesApart DEF IteratorsValid, ErasedPacketIsBehindFront, ThreadsCoherent, Analysed
<1> QED
  BY <1>2, <1>3, <1>4, <1>5 DEF QueueInv

\* clear() takes every packet out of the queue and out of the counts.
LEMMA ClearInv ==
  ASSUME QueueInv, Clear
  PROVE  QueueInv'
<1> USE DEF Clear, boundaryVars, analysisVars, eventVars
<1>1. Last \in Nat /\ front' = Last + 1 /\ Last' = Last /\ Empty'
  BY DEF QueueInv, TypeOK, Last, Empty
<1>2. packet_counts' = [video |-> 0, audio |-> 0]
  <2>1. (Last + 1) - 1 = Last
    BY <1>1
  <2>2. VideoCount(front, Last) \in Nat /\ AudioCount(front, Last) \in Nat
    BY <1>1, CountsAreCounts, CountType DEF QueueInv, TypeOK
  <2>3. packet_counts.video = VideoCount(front, Last)
        /\ packet_counts.audio = AudioCount(front, Last)
    BY DEF QueueInv, CountsExact
  <2>4. packet_counts' = CountsFrom(Last + 1, packet_counts)
    OBVIOUS
  <2> HIDE DEF Clear
  <2> QED
    BY <2>1, <2>2, <2>3, <2>4 DEF CountsFrom
<1>3. /\ pos' \in [Iterators -> Nat] /\ \A i \in Iterators : pos'[i] = End
  BY DEF QueueInv, TypeOK, ThreadsCoherent, End
<1>4. gop' \in [since: Nat, max: Nat, over: BOOLEAN]
  BY DEF QueueInv, TypeOK
<1>5. TypeOK'
  BY <1>1, <1>2, <1>3, <1>4, SMTT(60) DEF QueueInv, TypeOK
<1>6. CountsExact'
  <2>1. Video(front, Last)' = {} /\ Audio(front, Last)' = {}
    BY <1>1 DEF Video, Audio
  <2> QED
    BY <1>2, <2>1, FS_EmptySet DEF CountsExact, VideoCount, AudioCount
<1>7. FrontIsKeyframe'
  BY <1>1 DEF FrontIsKeyframe
<1>8. IteratorsValid' /\ ErasedPacketIsBehindFront'
  BY <1>3 DEF QueueInv, TypeOK, IteratorsValid, ErasedPacketIsBehindFront, Joined
<1>9. ThreadsCoherent'
  BY <1>1, <1>3 DEF QueueInv, ThreadsCoherent, Joined, Analysed
<1> QED
  BY <1>5, <1>6, <1>7, <1>8, <1>9 DEF QueueInv

\* releaseDecoded only moves its two boundaries, to positions.
LEMMA ReleaseDecodedInv ==
  ASSUME QueueInv, ReleaseDecoded
  PROVE  QueueInv'
<1> USE DEF queueVars, boundaryVars, eventVars
<1>1. /\ step = "release" /\ step' = "increment"
      /\ UNCHANGED <<pkts, front, packet_counts, cfg, iterators, pos, gop, streams, deleting,
                     clear_packets_pending_, first_queue_index_, hold, snap, opening, eventVars>>
  BY DEF ReleaseDecoded
<1>2. /\ front \in Nat /\ Last \in Nat /\ cfg.pre \in Nat \ {0} /\ cfg.max \in Nat
      /\ released_before_ \in Nat /\ capped_before_ \in Nat
  BY DEF QueueInv, TypeOK, Last
<1>3. released_before_' \in Nat /\ capped_before_' \in Nat
  <2>1. CASE deleting \/ Empty \/ Cardinality(ReleaseWindow) < cfg.pre
    BY <2>1, <1>2 DEF ReleaseDecoded
  <2>2. CASE ~(deleting \/ Empty \/ Cardinality(ReleaseWindow) < cfg.pre)
    <3>1. ReleaseBase \in Nat
      <4>1. Pinned \subseteq Nat
        BY DEF Pinned, QueueInv, TypeOK
      <4>2. Pinned # {} => Min(Pinned) \in Nat
        BY <4>1, MinProperty
      <4> QED
        BY <4>2, <1>2 DEF ReleaseBase
    <3>2. /\ ReleaseWindow \subseteq Nat
          /\ \A i \in ReleaseWindow : i <= ReleaseBase /\ i >= front + 1
      BY <3>1, <1>2 DEF ReleaseWindow, Video
    <3>3. Cardinality(ReleaseWindow) >= cfg.pre
      <4>1. Cardinality(ReleaseWindow) \in Nat
        BY <3>1, <3>2, FS_BoundedSetOfNaturals, FS_CardinalityType
      <4> QED
        BY <4>1, <2>2, <1>2
    <3>4. NthLast(ReleaseWindow, cfg.pre) \in ReleaseWindow
      BY <3>1, <3>2, <3>3, <1>2, NthLastProperty
    <3>5. PreEventStart \in Nat
      <4>1. PICK x \in ReleaseWindow : x = NthLast(ReleaseWindow, cfg.pre)
        BY <3>4
      <4> QED
        BY <4>1, <3>2, <1>2 DEF PreEventStart
    <3>6. ReleaseBoundary \in Nat
      <4> DEFINE keys == Keys(front + 1, PreEventStart)
      <4>1. keys \subseteq Nat /\ \A i \in keys : i <= PreEventStart
        BY <3>5, <1>2 DEF Keys
      <4>2. ReleaseBoundary \in {PreEventStart, front} \/ (keys # {} /\ ReleaseBoundary = Max(keys))
        BY DEF ReleaseBoundary
      <4> HIDE DEF keys
      <4>3. keys # {} => Max(keys) \in Nat
        BY <4>1, <3>5, MaxProperty
      <4> QED
        BY <4>2, <4>3, <3>5, <1>2
    <3>7. CapBoundary \in Nat
      <4> DEFINE newest == Video(front, Last)
      <4>1. newest \subseteq Nat /\ \A i \in newest : i <= Last
        BY <1>2 DEF Video
      <4>2. \/ CapBoundary \in {0, PreEventStart}
            \/ /\ cfg.max > 0 /\ Cardinality(newest) >= cfg.max
               /\ CapBoundary = NthLast(newest, cfg.max)
        BY DEF CapBoundary
      <4> HIDE DEF newest
      <4>3. cfg.max > 0 /\ Cardinality(newest) >= cfg.max => NthLast(newest, cfg.max) \in Nat
        <5>1. SUFFICES ASSUME cfg.max > 0, Cardinality(newest) >= cfg.max
                       PROVE  NthLast(newest, cfg.max) \in newest
          BY <4>1
        <5>2. cfg.max \in Nat \ {0}
          BY <5>1, <1>2
        <5> QED
          BY <4>1, <5>1, <5>2, <1>2, NthLastProperty
      <4> QED
        BY <4>2, <4>3, <3>5
    <3>8. /\ released_before_' = Max({released_before_, ReleaseBoundary})
          /\ capped_before_' = Max({capped_before_, CapBoundary})
      BY <2>2 DEF ReleaseDecoded
    <3> QED
      BY <3>6, <3>7, <3>8, <1>2, MaxOfTwo
  <2> QED
    BY <2>1, <2>2
<1>4. TypeOK'
  BY <1>1, <1>3 DEF QueueInv, TypeOK, Last
<1>5. CountsExact' /\ FrontIsKeyframe'
  BY <1>1, QuietQueue DEF QueueInv
<1>6. IteratorsValid' /\ ErasedPacketIsBehindFront' /\ ThreadsCoherent'
  BY <1>1 DEF QueueInv, IteratorsValid, ErasedPacketIsBehindFront, ThreadsCoherent, Analysed,
     Empty, Last
<1> QED
  BY <1>4, <1>5, <1>6 DEF QueueInv

\* Taking the packets before a later front away takes them out of the counts.
LEMMA CountsFromExact ==
  ASSUME QueueInv, NEW f \in front .. Last, front' = f, UNCHANGED pkts,
         packet_counts' = CountsFrom(f, packet_counts)
  PROVE  CountsExact' /\ packet_counts' \in [video: Nat, audio: Nat]
<1>1. /\ f \in Int /\ front \in Int /\ Last \in Int /\ front <= f /\ f <= Last + 1
      /\ Last' = Last
  BY DEF QueueInv, TypeOK, Last
<1>2. /\ VideoCount(front, Last) = VideoCount(front, f - 1) + VideoCount(f, Last)
      /\ AudioCount(front, Last) = AudioCount(front, f - 1) + AudioCount(f, Last)
  BY <1>1, CountSplit, CountsAreCounts
<1>3. /\ VideoCount(front, f - 1) \in Nat /\ VideoCount(f, Last) \in Nat
      /\ AudioCount(front, f - 1) \in Nat /\ AudioCount(f, Last) \in Nat
  <2>1. f - 1 \in Int
    BY <1>1
  <2> QED
    BY <1>1, <2>1, CountType, CountsAreCounts
<1>4. /\ packet_counts.video = VideoCount(front, Last)
      /\ packet_counts.audio = AudioCount(front, Last)
  BY DEF QueueInv, CountsExact
<1>5. packet_counts' = [video |-> VideoCount(f, Last), audio |-> AudioCount(f, Last)]
  BY <1>2, <1>3, <1>4 DEF CountsFrom
<1>6. VideoCount(front, Last)' = VideoCount(f, Last) /\ AudioCount(front, Last)' = AudioCount(f, Last)
  BY <1>1 DEF VideoCount, AudioCount, Video, Audio, IsVideo
<1> QED
  BY <1>3, <1>5, <1>6 DEF CountsExact

\* The longest keyframe interval clearPackets has measured is a number.
LEMMA IntervalsType ==
  ASSUME QueueInv, NEW p
  PROVE  Max({gop.max} \cup IntervalsSeen(p)) \in Nat
<1> DEFINE Interval(k) == IF Keys(front + 1, k - 1) = {}
                            THEN VideoCount(front + 1, k)
                            ELSE VideoCount(Max(Keys(front + 1, k - 1)), k)
           S == {gop.max} \cup IntervalsSeen(p)
<1>1. front \in Nat /\ front >= 1 /\ Last \in Nat /\ gop.max \in Nat
  BY DEF QueueInv, TypeOK, Last
<1>2. ASSUME NEW k \in NextFronts(p)
      PROVE  Interval(k) \in Nat /\ Interval(k) <= Last
  <2> DEFINE before == Keys(front + 1, k - 1)
  <2>1. k \in front + 1 .. Last
    BY DEF NextFronts, Keys
  <2>2. before \subseteq Nat /\ \A i \in before : i <= k /\ i >= front + 1
    BY <2>1, <1>1 DEF Keys
  <2>3. PICK a \in front + 1 .. k : Interval(k) = VideoCount(a, k)
    <3>1. CASE before = {}
      <4>1. front + 1 \in front + 1 .. k
        BY <2>1, <1>1
      <4> QED
        BY <3>1, <4>1
    <3>2. CASE before # {}
      <4>1. Interval(k) = VideoCount(Max(before), k)
        BY <3>2
      <4> HIDE DEF before, Interval
      <4>2. Max(before) \in before
        <5>1. k \in Nat /\ \A i \in before : i <= k
          BY <2>1, <2>2, <1>1
        <5> QED
          BY <3>2, <2>2, <5>1, MaxProperty
      <4>3. before \subseteq front + 1 .. k
        BY <2>1, <2>2, <1>1
      <4> QED
        BY <4>1, <4>2, <4>3
    <3> QED
      BY <3>1, <3>2
  <2> HIDE DEF Interval
  <2>4. a \in Int /\ k \in Int /\ a >= 1 /\ a <= k /\ k <= Last
    BY <2>1, <2>3, <1>1
  <2>5. VideoCount(a, k) \in Nat /\ VideoCount(a, k) <= IF a > k THEN 0 ELSE k - a + 1
    BY <2>4, CountType, CountsAreCounts
  <2> QED
    BY <2>3, <2>4, <2>5, <1>1
<1>3. IntervalsSeen(p) = {Interval(k) : k \in NextFronts(p)}
  BY DEF IntervalsSeen
<1> HIDE DEF Interval
<1>4. S \subseteq Nat /\ \A i \in S : i <= gop.max + Last
  BY <1>1, <1>2, <1>3
<1>5. S # {} /\ gop.max + Last \in Nat
  BY <1>1
<1> HIDE DEF S
<1>6. Max(S) \in S
  BY <1>4, <1>5, MaxProperty
<1>7. Max(S) \in Nat
  BY <1>4, <1>6
<1> QED
  BY <1>7 DEF S

\* Trimming to f, when f is the front or a packet that no iterator has passed,
\* not later than the analysed one, with video behind it and a keyframe in
\* passthrough.
LEMMA ClearToInv ==
  ASSUME QueueInv, step = "clear", step' = "release",
         NEW f \in front .. Last, front' = f,
         packet_counts' = CountsFrom(f, packet_counts),
         \/ f = front
         \/ /\ f <= Analysed
            /\ \A q \in Pinned : f <= q
            /\ cfg.keep => IsKey(f)
            /\ packet_counts.video - VideoCount(front, f - 1) > 0,
         clear_packets_pending_' \in BOOLEAN,
         gop' \in [since: Nat, max: Nat, over: BOOLEAN],
         UNCHANGED <<pkts, first_queue_index_, iterators, pos, streams, deleting, cfg,
                     boundaryVars, hold, snap, opening, eventVars>>
  PROVE  QueueInv'
<1> USE DEF boundaryVars, eventVars
<1>1. CountsExact' /\ packet_counts' \in [video: Nat, audio: Nat]
  BY CountsFromExact
<1>2. /\ "analysis" \in iterators /\ pos["analysis"] \in front .. Last
      /\ Analysed \in Nat /\ Analysed <= pos["analysis"]
      /\ Analysed < front => pos["analysis"] = front
  BY AnalysisIterator
<1>3. /\ front \in Nat /\ Last \in Nat /\ f \in Nat /\ Last' = Last /\ Analysed' = Analysed
      /\ front >= 1
  BY DEF QueueInv, TypeOK, Last, Analysed
<1>4. TypeOK'
  <2>1. front' \in 1 .. Last' + 1
    BY <1>3
  <2> QED
    BY <1>1, <1>3, <2>1 DEF QueueInv, TypeOK
<1>5. IteratorsValid'
  <2>1. ASSUME NEW i \in iterators, pos[i] # End PROVE pos[i] \in f .. Last
    <3>1. pos[i] \in front .. Last
      BY <2>1 DEF QueueInv, IteratorsValid
    <3>2. pos[i] \in Pinned
      BY <2>1 DEF Pinned
    <3> QED
      BY <3>1, <3>2, <1>3
  <2> QED
    BY <2>1, <1>3 DEF IteratorsValid
<1>6. FrontIsKeyframe'
  BY <1>3 DEF QueueInv, FrontIsKeyframe, IsKey, Empty
<1>7. ErasedPacketIsBehindFront'
  BY <1>2, <1>3 DEF ErasedPacketIsBehindFront
<1>8. packet_counts'.video > 0
  <2>1. CASE f = front
    <3>1. ~Empty
      BY <1>3 DEF Empty
    <3>2. packet_counts.video > 0 /\ packet_counts.video = VideoCount(front, Last)
      BY <3>1 DEF QueueInv, ThreadsCoherent, CountsExact
    <3>3. packet_counts'.video = VideoCount(front, Last)'
      BY <1>1 DEF CountsExact
    <3>4. VideoCount(front, Last)' = VideoCount(front, Last)
      BY <2>1, <1>3 DEF VideoCount, Video, IsVideo
    <3> QED
      BY <3>2, <3>3, <3>4
  <2>2. CASE f # front
    BY <2>2 DEF CountsFrom
  <2> QED
    BY <2>1, <2>2
<1>9. ThreadsCoherent'
  <2>1. pos["analysis"] # End /\ (Analysed >= f => pos["analysis"] = Analysed) /\ step # "idle"
    BY <1>2, <1>3 DEF QueueInv, ThreadsCoherent
  <2>2. ~Empty'
    BY <1>3 DEF Empty
  <2>3. Analysed # 0 /\ streams # 0
    BY <2>1 DEF QueueInv, ThreadsCoherent
  <2>4. \A i \in Iterators : i \notin iterators => pos[i] = End
    BY DEF QueueInv, ThreadsCoherent
  <2> QED
    BY <1>2, <1>3, <1>8, <2>1, <2>2, <2>3, <2>4 DEF ThreadsCoherent
<1> QED
  BY <1>1, <1>4, <1>5, <1>6, <1>7, <1>9 DEF QueueInv

\* clearPackets keeps the invariant, whichever way it trims.
LEMMA ClearPacketsInv ==
  ASSUME QueueInv, ClearPackets
  PROVE  QueueInv'
<1>1. /\ step = "clear" /\ step' = "release"
      /\ UNCHANGED <<pkts, first_queue_index_, iterators, pos, streams, deleting, cfg,
                     boundaryVars, hold, snap, opening, eventVars>>
  BY DEF ClearPackets
<1>2. /\ front \in Nat /\ Last \in Nat /\ front \in front .. Last
      /\ gop \in [since: Nat, max: Nat, over: BOOLEAN]
      /\ clear_packets_pending_ \in BOOLEAN
  BY <1>1, AnalysisIterator DEF QueueInv, TypeOK, Last
<1>3. CountsFrom(front, packet_counts) = packet_counts
  <2>1. VideoOf(pkts, front, front - 1) = {} /\ AudioOf(pkts, front, front - 1) = {}
    BY <1>2 DEF VideoOf, AudioOf
  <2>2. VideoCount(front, front - 1) = 0 /\ AudioCount(front, front - 1) = 0
    BY <2>1, CountsAreCounts, FS_EmptySet
  <2>3. packet_counts \in [video: Nat, audio: Nat]
    BY DEF QueueInv, TypeOK
  <2> QED
    BY <2>2, <2>3 DEF CountsFrom
<1>4. CASE UNCHANGED <<front, packet_counts, gop>> /\ clear_packets_pending_' \in BOOLEAN
  BY <1>1, <1>2, <1>3, <1>4, ClearToInv
<1>5. CASE ~cfg.keep /\ ClearTo(TrimmedFront(Analysed)) /\ UNCHANGED gop
  <2> DEFINE f == TrimmedFront(Analysed)
  <2>1. front' = f /\ packet_counts' = CountsFrom(f, packet_counts)
        /\ clear_packets_pending_' \in BOOLEAN
    BY <1>5 DEF ClearTo
  <2>2. \/ f = front
        \/ /\ f \in front + 1 .. Last /\ f <= Analysed /\ \A q \in Pinned : f <= q
           /\ packet_counts.video - VideoCount(front, f - 1) > 0
    BY <1>1, TrimmedFrontProperty
  <2> HIDE DEF f
  <2>3. f \in front .. Last
    BY <2>2, <1>2
  <2> QED
    BY <1>1, <1>2, <1>5, <2>1, <2>2, <2>3, ClearToInv
<1>6. CASE /\ cfg.keep /\ ClearTo(NextFront(Analysed))
           /\ gop' = [gop EXCEPT !.max = Max({@} \cup IntervalsSeen(Analysed))]
  <2> DEFINE f == NextFront(Analysed)
  <2>1. front' = f /\ packet_counts' = CountsFrom(f, packet_counts)
        /\ clear_packets_pending_' \in BOOLEAN
    BY <1>6 DEF ClearTo
  <2>2. \/ f = front
        \/ /\ f \in front + 1 .. Last /\ f <= Analysed /\ \A q \in Pinned : f <= q
           /\ IsKey(f)
    BY <1>1, NextFrontProperty
  <2>3. gop' \in [since: Nat, max: Nat, over: BOOLEAN]
    <3>1. Max({gop.max} \cup IntervalsSeen(Analysed)) \in Nat
      BY IntervalsType
    <3> QED
      BY <3>1, <1>2, <1>6
  <2> HIDE DEF f
  <2>4. f \in front .. Last
    BY <2>2, <1>2
  <2>5. CASE f = front
    BY <1>1, <1>2, <2>1, <2>3, <2>4, <2>5, ClearToInv
  <2>6. CASE f # front
    <3>1. packet_counts.video - VideoCount(front, f - 1) > 0
      <4>1. f \in Int /\ Last \in Int /\ front \in Int /\ f \in f .. Last
            /\ front <= f /\ f <= Last + 1 /\ f - 1 \in Int
        BY <2>4, <1>2
      <4>2. pkts[f] # "audio"
        BY <2>2, <2>6 DEF IsKey
      <4>3. VideoCount(f, Last) > 0
        BY <4>1, <4>2, CountPositive, CountsAreCounts
      <4>4. VideoCount(front, Last) = VideoCount(front, f - 1) + VideoCount(f, Last)
        BY <4>1, CountSplit, CountsAreCounts
      <4>5. VideoCount(front, f - 1) \in Nat /\ VideoCount(f, Last) \in Nat
        BY <4>1, CountType, CountsAreCounts
      <4>6. packet_counts.video = VideoCount(front, Last)
        BY DEF QueueInv, CountsExact
      <4> QED
        BY <4>3, <4>4, <4>5, <4>6
    <3> QED
      BY <1>1, <1>2, <2>1, <2>2, <2>3, <2>4, <2>6, <3>1, ClearToInv
  <2> QED
    BY <2>5, <2>6
<1> QED
  BY <1>2, <1>4, <1>5, <1>6 DEF ClearPackets

\* A packet is queued: the counts stay exact when the front overflows to a
\* later keyframe, and every iterator that would be erased is moved on to it.
LEMMA QueuePacketInv ==
  ASSUME QueueInv, NEW kind \in {"key", "delta", "audio"}, QueuePacket(kind)
  PROVE  QueueInv'
<1> DEFINE counts == IF kind = "audio"
                       THEN [packet_counts EXCEPT !.audio = @ + 1]
                       ELSE [packet_counts EXCEPT !.video = @ + 1]
           moved == [i \in Iterators |-> IF i \in iterators /\ pos[i] = End
                                           THEN Last + 1 ELSE pos[i]]
           f == IF kind = "audio" THEN front ELSE OverflowFront(counts)
<1>1. /\ front' = f /\ packet_counts' = CountsFrom(f, counts) /\ pos' = BumpedTo(f, moved)
      /\ pkts' = Append(pkts, kind) /\ gop' = GopAfter(kind) /\ Queueable(kind)
  BY DEF QueuePacket
<1>2. UNCHANGED <<first_queue_index_, iterators, streams, deleting, cfg,
                  clear_packets_pending_, boundaryVars, hold, analysisVars, eventVars>>
  BY DEF QueuePacket
<1>3. /\ pkts \in Seq({"key", "delta", "audio"}) /\ front \in Nat /\ Last \in Nat
      /\ front >= 1 /\ front <= Last + 1 /\ Last = Len(pkts)
      /\ packet_counts \in [video: Nat, audio: Nat] /\ pos \in [Iterators -> Nat]
      /\ gop \in [since: Nat, max: Nat, over: BOOLEAN]
      /\ cfg \in [pre: Nat \ {0}, max: Nat, keep: BOOLEAN]
  BY DEF QueueInv, TypeOK, Last
<1>4. /\ Last' = Last + 1 /\ pkts' \in Seq({"key", "delta", "audio"})
      /\ pkts'[Last + 1] = kind /\ \A i \in 1 .. Last : pkts'[i] = pkts[i]
  BY <1>1, <1>3 DEF Last
<1>5. f = front \/ (f \in front + 1 .. Last /\ IsKey(f))
  BY OverflowFrontProperty DEF QueueInv
<1>6. /\ counts.video = packet_counts.video + (IF kind = "audio" THEN 0 ELSE 1)
      /\ counts.audio = packet_counts.audio + (IF kind = "audio" THEN 1 ELSE 0)
  BY <1>3
<1> HIDE DEF counts, f
<1>7. f \in Nat /\ f >= front /\ f >= 1 /\ f <= Last + 1
  BY <1>3, <1>5
<1>8. /\ packet_counts' = [video |-> VideoCount(front, Last)', audio |-> AudioCount(front, Last)']
      /\ VideoCount(front, Last)' \in Nat /\ AudioCount(front, Last)' \in Nat
  <2>1. /\ VideoCount(front, Last)' = Cardinality(VideoOf(pkts', f, Last + 1))
        /\ AudioCount(front, Last)' = Cardinality(AudioOf(pkts', f, Last + 1))
    BY <1>1, <1>4 DEF VideoCount, AudioCount, Video, Audio, IsVideo, VideoOf, AudioOf
  <2>2. /\ Cardinality(VideoOf(pkts', f, Last + 1))
             = VideoCount(f, Last) + (IF kind = "audio" THEN 0 ELSE 1)
        /\ Cardinality(AudioOf(pkts', f, Last + 1))
             = AudioCount(f, Last) + (IF kind = "audio" THEN 1 ELSE 0)
    <3>1. f \in 1 .. Len(pkts) + 1
      BY <1>3, <1>7
    <3> QED
      BY <3>1, <1>1, <1>3, CountAppend, CountsAreCounts
  <2>3. /\ VideoCount(front, Last) = VideoCount(front, f - 1) + VideoCount(f, Last)
        /\ AudioCount(front, Last) = AudioCount(front, f - 1) + AudioCount(f, Last)
    <3>1. front \in Int /\ Last \in Int /\ f \in Int /\ front <= f /\ f <= Last + 1
      BY <1>3, <1>7
    <3> QED
      BY <3>1, CountSplit, CountsAreCounts
  <2>4. /\ VideoCount(front, f - 1) \in Nat /\ VideoCount(f, Last) \in Nat
        /\ AudioCount(front, f - 1) \in Nat /\ AudioCount(f, Last) \in Nat
    <3>1. front \in Int /\ Last \in Int /\ f \in Int /\ f - 1 \in Int
      BY <1>3, <1>7
    <3> QED
      BY <3>1, CountType, CountsAreCounts
  <2>5. /\ packet_counts.video = VideoCount(front, Last)
        /\ packet_counts.audio = AudioCount(front, Last)
    BY DEF QueueInv, CountsExact
  <2>6. packet_counts' = [video |-> counts.video - VideoCount(front, f - 1),
                          audio |-> counts.audio - AudioCount(front, f - 1)]
    BY <1>1 DEF CountsFrom
  <2>7. /\ counts.video - VideoCount(front, f - 1) = VideoCount(front, Last)'
        /\ counts.audio - AudioCount(front, f - 1) = AudioCount(front, Last)'
        /\ VideoCount(front, Last)' \in Nat /\ AudioCount(front, Last)' \in Nat
    BY <1>6, <2>1, <2>2, <2>3, <2>4, <2>5
  <2> QED
    BY <2>6, <2>7
<1>9. CountsExact'
  BY <1>8 DEF CountsExact
<1>10. Empty => kind = "key" /\ f = front /\ event = None
  <2>1. SUFFICES ASSUME Empty PROVE kind = "key" /\ f = front /\ event = None
    OBVIOUS
  <2>2. packet_counts.video = 0
    <3>1. VideoOf(pkts, front, Last) = {}
      BY <2>1, <1>3 DEF Empty, VideoOf
    <3> QED
      BY <3>1, CountsAreCounts, FS_EmptySet DEF QueueInv, CountsExact
  <2>3. event = None
    BY <2>1 DEF QueueInv, ThreadsCoherent
  <2> QED
    BY <1>1, <1>3, <1>5, <2>1, <2>2, <2>3 DEF Queueable, Empty
<1>11. \/ f = front /\ Empty /\ pkts'[f] = "key"
       \/ f = front /\ ~Empty /\ pkts'[f] = pkts[f]
       \/ f \in front + 1 .. Last /\ pkts'[f] = "key"
  <2>1. CASE Empty
    BY <2>1, <1>3, <1>4, <1>10 DEF Empty
  <2>2. CASE ~Empty /\ f = front
    BY <2>2, <1>3, <1>4 DEF Empty
  <2>3. CASE ~Empty /\ f # front
    BY <2>3, <1>3, <1>4, <1>5 DEF IsKey
  <2> QED
    BY <2>1, <2>2, <2>3
<1>12. FrontIsKeyframe'
  BY <1>1, <1>2, <1>11 DEF QueueInv, FrontIsKeyframe, IsKey
<1>13. packet_counts'.video > 0
  <2>1. CASE pkts'[f] = "key"
    <3>1. f \in Int /\ Last + 1 \in Int /\ f \in f .. Last + 1
      BY <1>3, <1>7
    <3>2. pkts'[f] # "audio"
      BY <2>1
    <3>3. Cardinality(VideoOf(pkts', f, Last + 1)) > 0
      BY <3>1, <3>2, CountPositive
    <3>4. VideoCount(front, Last)' = Cardinality(VideoOf(pkts', f, Last + 1))
      BY <1>1, <1>4 DEF VideoCount, Video, IsVideo, VideoOf
    <3> QED
      BY <3>3, <3>4, <1>8
  <2>2. CASE f = front /\ ~Empty
    <3>1. packet_counts.video > 0
      BY <2>2 DEF QueueInv, ThreadsCoherent
    <3>2. VideoOf(pkts, front, front - 1) = {}
      BY <1>3 DEF VideoOf
    <3>3. VideoCount(front, f - 1) = 0
      BY <2>2, <3>2, CountsAreCounts, FS_EmptySet
    <3>4. packet_counts'.video = counts.video - VideoCount(front, f - 1)
      BY <1>1 DEF CountsFrom
    <3> QED
      BY <3>1, <3>3, <3>4, <1>3, <1>6
  <2> QED
    BY <2>1, <2>2, <1>11
<1>14. ASSUME NEW i \in Iterators
       PROVE  pos'[i] = IF i \notin iterators THEN pos[i]
                        ELSE IF pos[i] = End THEN Last + 1
                        ELSE IF pos[i] < f THEN f ELSE pos[i]
  <2>1. moved[i] = IF i \in iterators /\ pos[i] = End THEN Last + 1 ELSE pos[i]
    OBVIOUS
  <2> HIDE DEF moved
  <2>2. pos'[i] = IF i \in iterators /\ moved[i] # End /\ moved[i] < f THEN f ELSE moved[i]
    BY <1>1 DEF BumpedTo
  <2>3. pos[i] \in Nat
    BY <1>3
  <2> QED
    BY <2>1, <2>2, <2>3, <1>3, <1>7 DEF End
<1>15. TypeOK'
  <2>1. pos' \in [Iterators -> Nat]
    <3>1. pos' = [i \in Iterators |-> pos'[i]]
      BY <1>1 DEF BumpedTo
    <3>2. \A i \in Iterators : pos'[i] \in Nat
      BY <1>3, <1>7, <1>14
    <3> QED
      BY <3>1, <3>2
  <2>2. gop' \in [since: Nat, max: Nat, over: BOOLEAN]
    <3>1. CASE kind = "audio"
      BY <3>1, <1>1, <1>3 DEF GopAfter
    <3>2. CASE kind = "key"
      BY <3>2, <1>1, <1>3 DEF GopAfter
    <3>3. CASE kind = "delta"
      BY <3>3, <1>1, <1>3 DEF GopAfter
    <3> QED
      BY <3>1, <3>2, <3>3
  <2>3. front' \in 1 .. Last' + 1 /\ first_queue_index_' \in 1 .. Last' + 1
    BY <1>1, <1>2, <1>3, <1>4, <1>7 DEF QueueInv, TypeOK
  <2>4. packet_counts' \in [video: Nat, audio: Nat]
    BY <1>8
  <2> QED
    BY <1>2, <1>4, <2>1, <2>2, <2>3, <2>4
    DEF QueueInv, TypeOK, boundaryVars, analysisVars, eventVars
<1>16. IteratorsValid'
  <2>1. ASSUME NEW i \in iterators PROVE pos'[i] \in f .. Last + 1
    <3>1. i \in Iterators /\ (pos[i] = End \/ pos[i] \in front .. Last)
      BY DEF QueueInv, TypeOK, IteratorsValid
    <3> QED
      BY <3>1, <1>3, <1>7, <1>14
  <2> QED
    BY <2>1, <1>1, <1>2, <1>4 DEF IteratorsValid
<1>17. ASSUME step # "idle"
       PROVE  /\ pos["analysis"] # End /\ pos'["analysis"] # End
              /\ pos["analysis"] <= pos'["analysis"] /\ pos["analysis"] \in Nat
              /\ pos'["analysis"] \in Nat
              /\ Analysed \in Nat /\ "analysis" \in iterators
              /\ Analysed < f => pos'["analysis"] = f
              /\ Analysed >= f => pos'["analysis"] = Analysed
  <2>1. /\ "analysis" \in iterators /\ pos["analysis"] \in front .. Last
        /\ Analysed \in Nat /\ Analysed <= pos["analysis"]
        /\ Analysed < front => pos["analysis"] = front
    BY <1>17, AnalysisIterator
  <2>2. Analysed >= front => pos["analysis"] = Analysed
    BY <1>17 DEF QueueInv, ThreadsCoherent
  <2>3. pos["analysis"] # End
    BY <2>1, <1>3 DEF End
  <2>4. pos'["analysis"] = IF pos["analysis"] < f THEN f ELSE pos["analysis"]
    BY <2>1, <2>3, <1>14, NamesApart
  <2> QED
    BY <2>1, <2>2, <2>3, <2>4, <1>3, <1>7 DEF End
<1>18. UNCHANGED <<step, Analysed, snap, event, streams, iterators>>
  BY <1>2 DEF Analysed, analysisVars, eventVars
<1>19. ErasedPacketIsBehindFront'
  BY <1>1, <1>17, <1>18 DEF ErasedPacketIsBehindFront
<1>20. ThreadsCoherent'
  <2>1. step' = "open" => snap' \in Analysed' .. pos'["analysis"]
    <3>1. SUFFICES ASSUME step = "open" PROVE snap \in Analysed .. pos'["analysis"]
      BY <1>18
    <3>2. snap \in Analysed .. pos["analysis"]
      BY <3>1 DEF QueueInv, ThreadsCoherent
    <3> QED
      BY <3>1, <3>2, <1>17
  <2>2. ~Empty'
    BY <1>1, <1>4, <1>3, <1>5 DEF Empty
  <2>3. streams' # 0
    BY <1>1, <1>18 DEF Queueable
  <2>4. \A i \in Iterators : i \notin iterators' => pos'[i] = End
    BY <1>14, <1>18 DEF QueueInv, ThreadsCoherent
  <2>5. step' = "idle" <=> Analysed' = 0
    BY <1>18 DEF QueueInv, ThreadsCoherent
  <2>6. step' # "idle" => /\ "analysis" \in iterators'
                          /\ pos'["analysis"] # End
                          /\ Analysed' >= front' => pos'["analysis"] = Analysed'
    BY <1>1, <1>17, <1>18
  <2> QED
    BY <2>1, <2>2, <2>3, <2>4, <2>5, <2>6, <1>13 DEF ThreadsCoherent
<1> QED
  BY <1>9, <1>12, <1>15, <1>16, <1>19, <1>20 DEF QueueInv

-----------------------------------------------------------------------------
(* The theorems *)

\* Every step of every thread keeps the invariant.
LEMMA NextInv == QueueInv /\ [Next]_vars => QueueInv'
<1> SUFFICES ASSUME QueueInv, [Next]_vars PROVE QueueInv'
  OBVIOUS
<1>1. CASE Capture
  BY <1>1, ReloadInv, PrimeCaptureInv, QueuePacketInv, StopInv, ClearInv DEF Capture
<1>2. CASE Analysis
  BY <1>2, AnalyseGetInv, AnalyseEndInv, StopInv, AnalyseInv, GetEventStartInv, StaleSnapshotInv,
     FreeItInv, ClearPacketsInv, ReleaseDecodedInv DEF Analysis
<1>3. CASE Reader
  BY <1>3, ReaderInv, FreeItInv DEF Reader
<1>4. CASE UNCHANGED vars
  BY <1>4, QuietQueue DEF vars, queueVars, boundaryVars, analysisVars, eventVars, QueueInv,
     TypeOK, IteratorsValid, ErasedPacketIsBehindFront, ThreadsCoherent, Analysed, Empty, Last
<1> QED
  BY <1>1, <1>2, <1>3, <1>4 DEF Next

\* The inductive invariant holds in every reachable state, for any events,
\* settings, camera and number of packets.
THEOREM QueueInvariant == Spec => []QueueInv
BY InitInv, NextInv, PTL DEF Spec

\* Every variable keeps its type; a count of packets never goes below zero.
THEOREM TypeCorrect == Spec => []TypeOK
<1>1. QueueInv => TypeOK
  BY DEF QueueInv
<1> QED
  BY <1>1, QueueInvariant, PTL

\* packet_counts is exact, through overflows, trims and clears.
THEOREM CountsAlwaysExact == Spec => []CountsExact
<1>1. QueueInv => CountsExact
  BY DEF QueueInv
<1> QED
  BY <1>1, QueueInvariant, PTL

\* No registered iterator ever points at an erased packet.
THEOREM IteratorsAlwaysValid == Spec => []IteratorsValid
<1>1. QueueInv => IteratorsValid
  BY DEF QueueInv
<1> QED
  BY <1>1, QueueInvariant, PTL

\* In passthrough the queue always starts with a keyframe.
THEOREM FrontAlwaysKeyframe == Spec => []FrontIsKeyframe
<1>1. QueueInv => FrontIsKeyframe
  BY DEF QueueInv
<1> QED
  BY <1>1, QueueInvariant, PTL

\* When the analysed packet has been overflowed away, analysis_it is at the
\* front of the queue.
THEOREM ErasedAlwaysBehindFront == Spec => []ErasedPacketIsBehindFront
<1>1. QueueInv => ErasedPacketIsBehindFront
  BY DEF QueueInv
<1> QED
  BY <1>1, QueueInvariant, PTL

-----------------------------------------------------------------------------
(* Windows of video packets *)

\* A shorter stretch has no more video packets.
LEMMA CountMonotone ==
  ASSUME NEW p, NEW a \in Int, NEW b \in Int, NEW c \in Int, NEW d \in Int, a <= c, d <= b
  PROVE  Cardinality(VideoOf(p, c, d)) <= Cardinality(VideoOf(p, a, b))
<1>1. VideoOf(p, c, d) \in SUBSET VideoOf(p, a, b)
  BY DEF VideoOf
<1>2. IsFiniteSet(VideoOf(p, a, b))
  BY PartFinite DEF VideoOf
<1> QED
  BY <1>1, <1>2, FS_Subset

\* The facts about counts, for the packets of the queue.
LEMMA VideoCountType ==
  ASSUME NEW a \in Int, NEW b \in Int
  PROVE  VideoCount(a, b) \in Nat /\ VideoCount(a, b) <= IF a > b THEN 0 ELSE b - a + 1
BY CountType, CountsAreCounts

\* A wider stretch of the queue holds at least as many video packets.
LEMMA VideoCountMonotone ==
  ASSUME NEW a \in Int, NEW b \in Int, NEW c \in Int, NEW d \in Int, a <= c, d <= b
  PROVE  VideoCount(c, d) <= VideoCount(a, b)
BY CountMonotone, CountsAreCounts

\* The video packets of two adjoining stretches add up.
LEMMA VideoCountSplit ==
  ASSUME NEW a \in Int, NEW b \in Int, NEW m \in Int, a <= m, m <= b + 1
  PROVE  VideoCount(a, b) = VideoCount(a, m - 1) + VideoCount(m, b)
BY CountSplit, CountsAreCounts

\* A packet counts one if it is video, else nothing.
LEMMA VideoCountOne ==
  ASSUME NEW i \in Int
  PROVE  VideoCount(i, i) = IF IsVideo(i) THEN 1 ELSE 0
<1>1. CASE IsVideo(i)
  <2>1. Video(i, i) = {i}
    BY <1>1 DEF Video
  <2> QED
    BY <1>1, <2>1, FS_Singleton DEF VideoCount
<1>2. CASE ~IsVideo(i)
  <2>1. Video(i, i) = {}
    BY <1>2 DEF Video
  <2> QED
    BY <1>2, <2>1, FS_EmptySet DEF VideoCount
<1> QED
  BY <1>1, <1>2

\* The n-th last video packet of a stretch: n video packets from it on.
LEMMA WindowStart ==
  ASSUME NEW low \in Nat, NEW s \in Nat, NEW n \in Nat \ {0},
         VideoCount(low + 1, s) >= n,
         NEW x, x = NthLast(Video(low + 1, s), n)
  PROVE  /\ x \in Nat /\ low + 1 <= x /\ x <= s /\ IsVideo(x)
         /\ VideoCount(x, s) = n /\ VideoCount(x + 1, s) = n - 1
<1> DEFINE S == Video(low + 1, s)
<1>1. S \subseteq Nat /\ \A i \in S : i <= s
  BY DEF Video
<1>2. Cardinality(S) >= n
  BY DEF VideoCount
<1>3. x \in S /\ Cardinality({j \in S : j >= x}) = n
  <2> HIDE DEF S
  <2>1. NthLast(S, n) \in S /\ Cardinality({j \in S : j >= NthLast(S, n)}) = n
    BY <1>1, <1>2, NthLastProperty
  <2> QED
    BY <2>1 DEF S
<1>4. x \in Nat /\ low + 1 <= x /\ x <= s /\ IsVideo(x)
  BY <1>3 DEF Video
<1>5. {j \in S : j >= x} = Video(x, s)
  BY <1>4 DEF Video
<1>6. VideoCount(x, s) = n
  BY <1>3, <1>5 DEF VideoCount
<1>7. VideoCount(x, s) = VideoCount(x, (x + 1) - 1) + VideoCount(x + 1, s)
  BY <1>4, VideoCountSplit
<1>8. VideoCount(x, x) = 1 /\ (x + 1) - 1 = x
  BY <1>4, VideoCountOne
<1>9. VideoCount(x + 1, s) \in Nat
  <2>1. x + 1 \in Int /\ s \in Int
    BY <1>4
  <2> QED
    BY <2>1, VideoCountType
<1> QED
  BY <1>4, <1>6, <1>7, <1>8, <1>9

\* It is the only video packet with that many from it on ...
LEMMA WindowStartUnique ==
  ASSUME NEW s \in Nat, NEW x \in Nat, NEW y \in Nat, x <= s, y <= s,
         IsVideo(x), IsVideo(y), VideoCount(x, s) = VideoCount(y, s)
  PROVE  x = y
<1>1. ASSUME NEW a \in Nat, NEW b \in Nat, a < b, b <= s, IsVideo(a)
      PROVE  VideoCount(a, s) > VideoCount(b, s)
  <2>1. VideoCount(a, s) = VideoCount(a, b - 1) + VideoCount(b, s)
    BY <1>1, VideoCountSplit
  <2>2. VideoCount(a, a) <= VideoCount(a, b - 1)
    BY <1>1, VideoCountMonotone
  <2>3. VideoCount(a, a) = 1
    BY <1>1, VideoCountOne
  <2>4. VideoCount(b, s) \in Nat /\ VideoCount(a, b - 1) \in Nat
    <3>1. a \in Int /\ b \in Int /\ s \in Int /\ b - 1 \in Int
      BY <1>1
    <3> QED
      BY <3>1, VideoCountType
  <2> QED
    BY <2>1, <2>2, <2>3, <2>4
<1>2. VideoCount(x, s) \in Nat /\ VideoCount(y, s) \in Nat
  BY VideoCountType
<1>3. CASE x < y
  BY <1>1, <1>2, <1>3
<1>4. CASE y < x
  BY <1>1, <1>2, <1>4
<1> QED
  BY <1>3, <1>4

\* ... so it does not matter where the stretch begins, if it is long enough.
LEMMA WindowStartSame ==
  ASSUME NEW low \in Nat, NEW m \in Nat, low <= m, NEW s \in Nat, NEW n \in Nat \ {0},
         VideoCount(m + 1, s) >= n
  PROVE  NthLast(Video(low + 1, s), n) = NthLast(Video(m + 1, s), n)
<1> DEFINE x == NthLast(Video(low + 1, s), n)
           y == NthLast(Video(m + 1, s), n)
<1>1. VideoCount(m + 1, s) <= VideoCount(low + 1, s)
  BY VideoCountMonotone
<1>2. VideoCount(m + 1, s) \in Nat /\ VideoCount(low + 1, s) \in Nat
  <2>1. m + 1 \in Int /\ low + 1 \in Int /\ s \in Int
    OBVIOUS
  <2> QED
    BY <2>1, VideoCountType
<1>3. VideoCount(low + 1, s) >= n
  BY <1>1, <1>2
<1>4. x \in Nat /\ x <= s /\ IsVideo(x) /\ VideoCount(x, s) = n
  BY <1>3, WindowStart
<1>5. y \in Nat /\ y <= s /\ IsVideo(y) /\ VideoCount(y, s) = n
  BY WindowStart
<1> HIDE DEF x, y
<1>6. x = y
  BY <1>4, <1>5, WindowStartUnique
<1> QED
  BY <1>6 DEF x, y

\* The walk of get_event_start_packet_it from s back: with enough video behind
\* low it ends just before the n-th last video packet, else at low.
LEMMA WalkBackProperty ==
  ASSUME NEW low \in Nat, NEW s \in Nat, low <= s, NEW n \in Nat,
         NEW reached, reached = WalkBack(s, n, low)
  PROVE  /\ reached \in low .. s
         /\ n = 0 => reached = s
         /\ \/ VideoCount(reached + 1, s) = n
            \/ reached = low /\ VideoCount(low + 1, s) < n
         /\ \A later \in reached + 1 .. s : VideoCount(later + 1, s) < n
<1>1. CASE n = 0
  <2>1. reached = s
    BY <1>1 DEF WalkBack
  <2>2. VideoCount(s + 1, s) = 0
    <3>1. Video(s + 1, s) = {}
      BY DEF Video
    <3> QED
      BY <3>1, FS_EmptySet DEF VideoCount
  <2> QED
    BY <1>1, <2>1, <2>2
<1>2. CASE n # 0 /\ ~(VideoCount(low + 1, s) >= n)
  <2>1. reached = low
    BY <1>2 DEF WalkBack, VideoCount
  <2>2. VideoCount(low + 1, s) \in Nat
    BY VideoCountType
  <2>3. ASSUME NEW later \in reached + 1 .. s PROVE VideoCount(later + 1, s) < n
    <3>1. VideoCount(later + 1, s) <= VideoCount(low + 1, s)
      BY <2>1, <2>3, VideoCountMonotone
    <3>2. VideoCount(later + 1, s) \in Nat
      BY <2>1, <2>3, VideoCountType
    <3> QED
      BY <3>1, <3>2, <2>2, <1>2
  <2> QED
    BY <1>2, <2>1, <2>2, <2>3
<1>3. CASE n # 0 /\ VideoCount(low + 1, s) >= n
  <2> DEFINE x == NthLast(Video(low + 1, s), n)
  <2>1. reached = x - 1
    BY <1>3 DEF WalkBack, VideoCount
  <2>2. /\ x \in Nat /\ low + 1 <= x /\ x <= s
        /\ VideoCount(x, s) = n /\ VideoCount(x + 1, s) = n - 1
    BY <1>3, WindowStart
  <2> HIDE DEF x
  <2>3. (x - 1) + 1 = x /\ reached \in low .. s
    BY <2>1, <2>2
  <2>4. VideoCount(reached + 1, s) = n
    BY <2>1, <2>2, <2>3
  <2>5. ASSUME NEW later \in reached + 1 .. s PROVE VideoCount(later + 1, s) < n
    <3>1. later \in Int /\ x + 1 <= later + 1
      BY <2>1, <2>2, <2>5
    <3>2. VideoCount(later + 1, s) <= VideoCount(x + 1, s)
      BY <2>2, <3>1, VideoCountMonotone
    <3>3. VideoCount(later + 1, s) \in Nat
      BY <3>1, VideoCountType
    <3> QED
      BY <2>2, <3>2, <3>3
  <2> QED
    BY <1>3, <2>3, <2>4, <2>5
<1> QED
  BY <1>1, <1>2, <1>3

\* How far back get_event_start_packet_it may go: to the front, or to the first
\* packet that keeps its decoded data, if that is later.
LEMMA EventLow ==
  ASSUME NEW a \in Nat, NEW s \in Nat, a <= s, NEW r \in Nat, r <= s
  PROVE  Max({a, Min({s, r})}) = IF r > a THEN r ELSE a
<1>1. Min({s, r}) \in {s, r} /\ Min({s, r}) <= s /\ Min({s, r}) <= r
  BY MinOfTwo
<1>2. Min({s, r}) = r
  BY <1>1
<1>3. Max({a, r}) \in {a, r} /\ a <= Max({a, r}) /\ r <= Max({a, r})
  BY MaxOfTwo
<1>4. Max({a, r}) = IF r > a THEN r ELSE a
  BY <1>3
<1> QED
  BY <1>2, <1>4

\* Two sets of positions that agree above m have the same greatest element.
LEMMA MaxAgree ==
  ASSUME NEW S, NEW T, S \subseteq T, T \subseteq Nat, NEW b \in Nat, \A i \in T : i <= b,
         S # {}, NEW m \in Nat, \A i \in T : i \in S \/ i <= m, \A i \in S : m <= i
  PROVE  Max(S) = Max(T)
<1>1. S \subseteq Nat /\ T # {} /\ \A i \in S : i <= b
  OBVIOUS
<1>2. Max(S) \in S /\ \A j \in S : j <= Max(S)
  BY <1>1, MaxProperty
<1>3. Max(T) \in T /\ \A j \in T : j <= Max(T)
  BY <1>1, MaxProperty
<1>4. PICK x \in S : x = Max(S)
  BY <1>2
<1>5. PICK y \in T : y = Max(T)
  BY <1>3
<1>6. x <= y
  BY <1>3, <1>4, <1>5
<1>7. y <= x
  <2>1. CASE y \in S
    BY <2>1, <1>2, <1>4
  <2>2. CASE y <= m
    BY <2>2, <1>4, <1>5, <1>1
  <2> QED
    BY <2>1, <2>2, <1>5
<1> QED
  BY <1>4, <1>5, <1>6, <1>7, <1>1

\* As long as r has the window in front of it, and is a keyframe where events
\* start on keyframes, an event starts where it would have started had
\* releaseDecoded freed nothing.
LEMMA StartUnmoved ==
  ASSUME TypeOK, NEW s \in Nat, front <= s, s <= Last, NEW n \in Nat, NEW r \in Nat, r <= s,
         r > front => VideoCount(r + 1, s) >= n /\ (cfg.keep => IsKey(r))
  PROVE  EventStart(s, n, r) = EventStart(s, n, 0)
<1>1. front \in Nat /\ 0 \in Nat /\ 0 <= s /\ front >= 1
  BY DEF TypeOK
<1>2. Max({front, Min({s, 0})}) = front
  <2>1. Max({front, Min({s, 0})}) = IF 0 > front THEN 0 ELSE front
    BY <1>1, EventLow
  <2> QED
    BY <2>1, <1>1
<1>3. Max({front, Min({s, r})}) = IF r > front THEN r ELSE front
  BY <1>1, EventLow
<1>4. CASE ~(r > front)
  <2>1. Max({front, Min({s, r})}) = Max({front, Min({s, 0})})
    BY <1>2, <1>3, <1>4
  <2> QED
    BY <2>1, Zenon DEF EventStart
<1>5. CASE r > front
  <2> DEFINE R == WalkBack(s, n, r)
             R0 == WalkBack(s, n, front)
             K == Keys(r + 1, R)
             K0 == Keys(front + 1, R)
  <2>1. Max({front, Min({s, r})}) = r
    BY <1>3, <1>5
  <2>2. VideoCount(r + 1, s) >= n /\ (cfg.keep => IsKey(r))
    BY <1>5
  <2>3. R = R0
    <3>1. CASE n = 0
      BY <3>1 DEF WalkBack
    <3>2. CASE n # 0
      <4>1. VideoCount(r + 1, s) <= VideoCount(front + 1, s)
        BY <1>1, <1>5, VideoCountMonotone
      <4>2. VideoCount(r + 1, s) \in Nat
        <5>1. r + 1 \in Int /\ s \in Int
          OBVIOUS
        <5> QED
          BY <5>1, VideoCountType
      <4>3. VideoCount(front + 1, s) \in Nat
        <5>1. front + 1 \in Int /\ s \in Int
          BY <1>1
        <5> QED
          BY <5>1, VideoCountType
      <4>4. VideoCount(front + 1, s) >= n
        BY <4>1, <4>2, <4>3, <2>2
      <4>5. NthLast(Video(front + 1, s), n) = NthLast(Video(r + 1, s), n)
        BY <3>2, <2>2, <1>1, <1>5, WindowStartSame
      <4> QED
        BY <3>2, <2>2, <4>4, <4>5 DEF WalkBack, VideoCount
    <3> QED
      BY <3>1, <3>2
  <2>4. R \in r .. s
    BY WalkBackProperty
  <2>5. VideoCount(r, s) >= n /\ VideoCount(front, s) >= n
    <3>1. VideoCount(r + 1, s) <= VideoCount(r, s)
      BY <1>1, VideoCountMonotone
    <3>2. VideoCount(r + 1, s) <= VideoCount(front, s)
      BY <1>1, <1>5, VideoCountMonotone
    <3>3. VideoCount(r + 1, s) \in Nat
      <4>1. r + 1 \in Int /\ s \in Int
        OBVIOUS
      <4> QED
        BY <4>1, VideoCountType
    <3>4. VideoCount(r, s) \in Nat /\ VideoCount(front, s) \in Nat
      <4>1. r \in Int /\ s \in Int /\ front \in Int
        BY <1>1
      <4> QED
        BY <4>1, VideoCountType
    <3> QED
      BY <3>1, <3>2, <3>3, <3>4, <2>2
  <2>6. EventStart(s, n, r) = IF ~cfg.keep THEN R
                              ELSE IF K # {} THEN Max(K) ELSE StartAtLow(s, r)
    BY <2>1, <2>5, Zenon DEF EventStart
  <2>7. EventStart(s, n, 0) = IF ~cfg.keep THEN R
                              ELSE IF K0 # {} THEN Max(K0) ELSE StartAtLow(s, front)
    BY <1>2, <2>3, <2>5, Zenon DEF EventStart
  <2> HIDE DEF R
  <2>8. CASE ~cfg.keep
    BY <2>6, <2>7, <2>8
  <2>9. CASE cfg.keep
    <3>1. r \in K0 /\ K \subseteq K0 /\ K0 \subseteq Nat /\ \A i \in K0 : i <= s
      BY <2>2, <2>4, <2>9, <1>1, <1>5 DEF Keys
    <3>2. CASE K # {}
      <4>1. \A i \in K0 : i \in K \/ i <= r
        BY <2>4, <1>1 DEF Keys
      <4>2. \A i \in K : r <= i
        BY <2>4 DEF Keys
      <4> HIDE DEF K, K0
      <4>3. Max(K) = Max(K0)
        BY <3>1, <3>2, <4>1, <4>2, MaxAgree
      <4> QED
        BY <2>6, <2>7, <2>9, <3>1, <3>2, <4>3
    <3>3. CASE K = {}
      <4>1. \A i \in K0 : i <= r
        BY <3>3, <2>4, <1>1 DEF Keys
      <4>2. Max(K0) = r
        <5> HIDE DEF K0
        <5>1. Max(K0) \in K0 /\ \A j \in K0 : j <= Max(K0)
          BY <3>1, MaxProperty
        <5>2. Max(K0) \in Nat /\ r <= Max(K0) /\ Max(K0) <= r
          BY <5>1, <4>1, <3>1
        <5> QED
          BY <5>2
      <4> DEFINE L == Keys(r, s)
      <4>3. r \in L /\ L \subseteq Nat /\ \A i \in L : r <= i
        BY <2>2, <2>9 DEF Keys
      <4>4. Min(L) = r
        <5> HIDE DEF L
        <5>1. Min(L) \in L /\ \A j \in L : Min(L) <= j
          BY <4>3, MinProperty
        <5>2. Min(L) \in Nat /\ r <= Min(L) /\ Min(L) <= r
          BY <5>1, <4>3
        <5> QED
          BY <5>2
      <4>5. StartAtLow(s, r) = Min(L)
        <5>1. L # {} /\ r # front
          BY <4>3, <1>5
        <5> QED
          BY <5>1, <2>9, Zenon DEF StartAtLow
      <4> QED
        BY <2>6, <2>7, <2>9, <3>1, <3>3, <4>2, <4>4, <4>5
    <3> QED
      BY <3>2, <3>3
  <2> QED
    BY <2>8, <2>9
<1> QED
  BY <1>4, <1>5

\* Where an event starts when nothing was released: with its window or at the
\* front, on a keyframe where events start on keyframes, and not before that.
LEMMA StartOnWindow ==
  ASSUME QueueInv, NEW s \in Nat, front <= s, s <= Last, NEW n \in Nat,
         NEW start, start = EventStart(s, n, 0)
  PROVE  /\ start \in front .. s
         /\ VideoCount(start, s) >= n \/ start = front
         /\ cfg.keep => IsKey(start)
         /\ \A later \in start + 1 .. s :
              (cfg.keep => IsKey(later)) => VideoCount(later + 1, s) < n
<1> DEFINE R == WalkBack(s, n, front)
           K == Keys(front + 1, R)
<1>1. front \in Nat /\ 0 \in Nat /\ 0 <= s /\ front >= 1 /\ Last \in Nat /\ TypeOK
  BY DEF QueueInv, TypeOK, Last
<1>2. Max({front, Min({s, 0})}) = front
  <2>1. Max({front, Min({s, 0})}) = IF 0 > front THEN 0 ELSE front
    BY <1>1, EventLow
  <2> QED
    BY <2>1, <1>1
<1>3. start \in front .. s
  BY <1>1, EventStartProperty
<1>4. /\ R \in front .. s
      /\ VideoCount(R + 1, s) = n \/ (R = front /\ VideoCount(front + 1, s) < n)
      /\ \A later \in R + 1 .. s : VideoCount(later + 1, s) < n
  BY <1>1, WalkBackProperty, ZenonT(60)
<1>5. StartAtLow(s, front) = front
  BY DEF StartAtLow
<1>6. start = IF VideoCount(front, s) >= n /\ ~cfg.keep THEN R
              ELSE IF VideoCount(front, s) >= n /\ K # {} THEN Max(K)
              ELSE front
  BY <1>2, <1>5, Zenon DEF EventStart
<1>7. cfg.keep => IsKey(front)
  BY <1>1 DEF QueueInv, FrontIsKeyframe, Empty
<1> HIDE DEF R
<1>8. ASSUME NEW a \in front .. s
      PROVE  /\ VideoCount(a, s) \in Nat /\ VideoCount(a + 1, s) \in Nat
             /\ VideoCount(a + 1, s) <= VideoCount(a, s)
             /\ VideoCount(a, s) <= VideoCount(front, s)
  <2>1. a \in Int /\ s \in Int /\ a + 1 \in Int /\ front \in Int /\ front <= a /\ a <= a + 1
    BY <1>1, <1>8
  <2>2. VideoCount(a, s) \in Nat
    BY <2>1, VideoCountType
  <2>3. VideoCount(a + 1, s) \in Nat
    BY <2>1, VideoCountType
  <2>4. VideoCount(a + 1, s) <= VideoCount(a, s)
    BY <2>1, VideoCountMonotone
  <2>5. VideoCount(a, s) <= VideoCount(front, s)
    BY <2>1, VideoCountMonotone
  <2> QED
    BY <2>2, <2>3, <2>4, <2>5
<1>9. VideoCount(front, s) \in Nat
  BY <1>8, <1>1
<1>10. CASE ~(VideoCount(front, s) >= n)
  <2>1. start = front
    BY <1>6, <1>10
  <2>2. ASSUME NEW later \in start + 1 .. s PROVE VideoCount(later + 1, s) < n
    <3>1. later \in front .. s
      BY <2>1, <2>2, <1>1
    <3>2. /\ VideoCount(later, s) \in Nat /\ VideoCount(later + 1, s) \in Nat
          /\ VideoCount(later + 1, s) <= VideoCount(later, s)
          /\ VideoCount(later, s) <= VideoCount(front, s)
      BY <3>1, <1>8
    <3> QED
      BY <3>2, <1>9, <1>10
  <2> QED
    BY <2>1, <2>2, <1>3, <1>7
<1>11. CASE VideoCount(front, s) >= n /\ ~cfg.keep
  <2>1. start = R
    BY <1>6, <1>11
  <2>2. VideoCount(start, s) >= n \/ start = front
    BY <2>1, <1>4, <1>8
  <2> QED
    BY <2>1, <2>2, <1>3, <1>4, <1>11
<1>12. CASE VideoCount(front, s) >= n /\ cfg.keep /\ K # {}
  <2>1. start = Max(K)
    BY <1>6, <1>12
  <2>2. K \subseteq Nat /\ \A i \in K : i <= s
    BY <1>1, <1>4 DEF Keys
  <2>3. Max(K) \in K /\ \A j \in K : j <= Max(K)
    <3> HIDE DEF K
    <3> QED
      BY <2>2, <1>12, MaxProperty
  <2>4. start \in K /\ \A j \in K : j <= start
    BY <2>1, <2>3
  <2>5. IsKey(start) /\ start <= R /\ start \in Nat
    BY <2>4, <1>1, <1>4 DEF Keys
  <2>6. VideoCount(start, s) >= n \/ start = front
    <3>1. CASE VideoCount(R + 1, s) = n
      <4>1. VideoCount(R + 1, s) <= VideoCount(start, s)
        BY <2>5, <1>4, VideoCountMonotone
      <4> QED
        BY <3>1, <4>1
    <3>2. CASE R = front
      BY <3>2, <2>4, <1>1 DEF Keys
    <3> QED
      BY <3>1, <3>2, <1>4
  <2>7. ASSUME NEW later \in start + 1 .. s, IsKey(later) PROVE VideoCount(later + 1, s) < n
    <3>1. later \notin K
      BY <2>4, <2>5, <2>7
    <3>2. later \in R + 1 .. s
      BY <3>1, <2>5, <2>7, <1>1, <1>3, <1>4 DEF Keys
    <3> QED
      BY <3>2, <1>4
  <2> QED
    BY <2>5, <2>6, <2>7, <1>3, <1>12
<1>13. CASE VideoCount(front, s) >= n /\ cfg.keep /\ K = {}
  <2>1. start = front
    BY <1>6, <1>13
  <2>2. ASSUME NEW later \in start + 1 .. s, IsKey(later) PROVE VideoCount(later + 1, s) < n
    <3>1. later \in R + 1 .. s
      BY <2>1, <2>2, <1>1, <1>4, <1>13 DEF Keys
    <3> QED
      BY <3>1, <1>4
  <2> QED
    BY <2>1, <2>2, <1>3, <1>7, <1>13
<1> QED
  BY <1>10, <1>11, <1>12, <1>13

-----------------------------------------------------------------------------
(* What releaseDecoded frees *)

\* Where the analysis iterator is, or where it will go on
AnalysisAt == IF pos["analysis"] = End THEN Last ELSE pos["analysis"]

\* No reader is before the boundary of the freed data, nor is the copy of
\* analysis_it that openEvent works with.  As long as the boundary is inside
\* the queue, the pre-event window of the analysed packet lies behind it, and
\* in passthrough it is a keyframe.
ReleasedInv ==
  /\ released_before_ <= Last
  /\ ReadersKeepDecodedData
  /\ step = "open" => snap >= released_before_
  /\ released_before_ > front =>
       /\ VideoCount(released_before_ + 1, AnalysisAt) >= cfg.pre
       /\ step = "open" => VideoCount(released_before_ + 1, snap) >= cfg.pre
       /\ cfg.keep => IsKey(released_before_)

\* The types these proofs need, and how far the analysis iterator can be.
LEMMA ReleasedTypes ==
  ASSUME QueueInv
  PROVE  /\ front \in Nat /\ front >= 1 /\ Last \in Nat /\ front <= Last + 1
         /\ released_before_ \in Nat /\ cfg.pre \in Nat \ {0} /\ pos \in [Iterators -> Nat]
         /\ iterators \subseteq Iterators /\ snap \in Nat
         /\ AnalysisAt \in Nat /\ AnalysisAt <= Last
         /\ step = "open" => snap <= Last
<1>1. /\ front \in Nat /\ front >= 1 /\ Last \in Nat /\ front <= Last + 1
      /\ released_before_ \in Nat /\ cfg.pre \in Nat \ {0} /\ pos \in [Iterators -> Nat]
      /\ iterators \subseteq Iterators /\ snap \in Nat
  BY DEF QueueInv, TypeOK, Last
<1>2. pos["analysis"] = End \/ pos["analysis"] \in front .. Last
  BY NamesApart DEF QueueInv, IteratorsValid, ThreadsCoherent
<1>3. AnalysisAt \in Nat /\ AnalysisAt <= Last
  BY <1>1, <1>2 DEF AnalysisAt
<1>4. step = "open" => snap <= Last
  <2>1. SUFFICES ASSUME step = "open" PROVE snap <= Last
    OBVIOUS
  <2>2. snap \in Analysed .. pos["analysis"] /\ pos["analysis"] \in front .. Last
    BY <2>1, <1>2 DEF QueueInv, ThreadsCoherent
  <2> QED
    BY <1>1, <2>2
<1> QED
  BY <1>1, <1>3, <1>4

\* A step that moves the front and the iterators only forward, queues packets
\* only at the end and releases nothing.
LEMMA ReleasedKept ==
  ASSUME QueueInv, ReleasedInv,
         Last' \in Nat, Last <= Last', \A j \in 1 .. Last : pkts'[j] = pkts[j],
         cfg' = cfg, released_before_' = released_before_,
         front' \in Nat, front <= front',
         \A i \in iterators' : pos'[i] = End \/ (pos'[i] \in Nat /\ released_before_ <= pos'[i]),
         AnalysisAt' \in Nat, AnalysisAt <= AnalysisAt',
         step' = "open" => \/ step = "open" /\ snap' = snap
                           \/ snap' = AnalysisAt /\ released_before_ <= snap'
  PROVE  ReleasedInv'
<1> DEFINE r == released_before_
<1>1. /\ front \in Nat /\ front >= 1 /\ Last \in Nat /\ r \in Nat /\ cfg.pre \in Nat
      /\ AnalysisAt \in Nat /\ AnalysisAt <= Last /\ snap \in Nat
      /\ step = "open" => snap <= Last
  BY ReleasedTypes
<1>2. r <= Last /\ released_before_' = r
  BY DEF ReleasedInv
<1>3. released_before_' <= Last'
  BY <1>1, <1>2
<1>4. ReadersKeepDecodedData'
  BY <1>1, <1>2 DEF ReadersKeepDecodedData
<1>5. step' = "open" => snap' >= released_before_'
  BY <1>1, <1>2 DEF ReleasedInv
<1>6. ASSUME released_before_' > front'
      PROVE  /\ VideoCount(released_before_ + 1, AnalysisAt)' >= cfg.pre'
             /\ step' = "open" => VideoCount(released_before_ + 1, snap)' >= cfg.pre'
             /\ cfg.keep' => IsKey(released_before_)'
  <2>1. r > front
    BY <1>1, <1>2, <1>6
  <2>2. /\ VideoCount(r + 1, AnalysisAt) >= cfg.pre
        /\ step = "open" => VideoCount(r + 1, snap) >= cfg.pre
        /\ cfg.keep => IsKey(r)
    BY <2>1 DEF ReleasedInv
  <2>3. ASSUME NEW b \in Nat, b <= Last, NEW c \in Nat, b <= c, VideoCount(r + 1, b) >= cfg.pre
        PROVE  Cardinality(VideoOf(pkts', r + 1, c)) >= cfg.pre
    <3>1. VideoOf(pkts, r + 1, b) = VideoOf(pkts', r + 1, b)
      BY <1>1, <2>3 DEF VideoOf
    <3>2. r + 1 \in Int /\ b \in Int /\ c \in Int /\ r + 1 <= r + 1
      BY <1>1
    <3>3. Cardinality(VideoOf(pkts', r + 1, b)) <= Cardinality(VideoOf(pkts', r + 1, c))
      BY <2>3, <3>2, CountMonotone
    <3>4. /\ Cardinality(VideoOf(pkts', r + 1, b)) \in Nat
          /\ Cardinality(VideoOf(pkts', r + 1, c)) \in Nat
      BY <3>2, CountType
    <3>5. Cardinality(VideoOf(pkts', r + 1, b)) >= cfg.pre
      BY <2>3, <3>1, CountsAreCounts
    <3> QED
      BY <3>3, <3>4, <3>5, <1>1
  <2>4. VideoCount(released_before_ + 1, AnalysisAt)' >= cfg.pre'
    <3>1. Cardinality(VideoOf(pkts', r + 1, AnalysisAt')) >= cfg.pre
      BY <2>2, <2>3, <1>1
    <3>2. VideoCount(released_before_ + 1, AnalysisAt)'
            = Cardinality(VideoOf(pkts', r + 1, AnalysisAt'))
      BY <1>2 DEF VideoCount, Video, IsVideo, VideoOf
    <3> QED
      BY <3>1, <3>2
  <2>5. ASSUME step' = "open" PROVE VideoCount(released_before_ + 1, snap)' >= cfg.pre'
    <3>1. Cardinality(VideoOf(pkts', r + 1, snap')) >= cfg.pre
      <4>1. CASE step = "open" /\ snap' = snap
        BY <4>1, <2>2, <2>3, <1>1
      <4>2. CASE snap' = AnalysisAt
        BY <4>2, <2>2, <2>3, <1>1
      <4> QED
        BY <2>5, <4>1, <4>2
    <3>2. VideoCount(released_before_ + 1, snap)'
            = Cardinality(VideoOf(pkts', r + 1, snap'))
      BY <1>2 DEF VideoCount, Video, IsVideo, VideoOf
    <3> QED
      BY <3>1, <3>2
  <2>6. cfg.keep' => IsKey(released_before_)'
    <3>1. r \in 1 .. Last
      BY <1>1, <1>2, <2>1
    <3> QED
      BY <3>1, <2>2, <1>2 DEF IsKey
  <2> QED
    BY <2>4, <2>5, <2>6
<1> QED
  BY <1>3, <1>4, <1>5, <1>6 DEF ReleasedInv

\* A step after which the boundary is not inside the queue.
LEMMA ReleasedBehind ==
  ASSUME released_before_' \in Nat, released_before_' <= Last', front' \in Nat,
         released_before_' <= front', step' # "open",
         \A i \in iterators' :
           pos'[i] = End \/ (pos'[i] \in Nat /\ released_before_' <= pos'[i])
  PROVE  ReleasedInv'
<1>1. ReadersKeepDecodedData'
  BY DEF ReadersKeepDecodedData
<1>2. ~(released_before_' > front')
  OBVIOUS
<1> QED
  BY <1>1, <1>2 DEF ReleasedInv

\* Steps that leave packets, front, settings and boundary alone and move no
\* iterator but a reader's, forward.
LEMMA ReleasedQuiet ==
  ASSUME QueueInv, ReleasedInv, UNCHANGED <<pkts, front, cfg, released_before_>>,
         \A i \in iterators' :
           pos'[i] = End \/ (pos'[i] \in Nat /\ released_before_ <= pos'[i]),
         pos'["analysis"] = pos["analysis"],
         step' = "open" => step = "open" /\ snap' = snap
  PROVE  ReleasedInv'
<1>1. /\ front \in Nat /\ Last \in Nat /\ AnalysisAt \in Nat
  BY ReleasedTypes
<1>2. Last' = Last /\ AnalysisAt' = AnalysisAt
  BY DEF Last, AnalysisAt
<1>3. /\ Last' \in Nat /\ Last <= Last' /\ \A j \in 1 .. Last : pkts'[j] = pkts[j]
      /\ front' \in Nat /\ front <= front' /\ AnalysisAt' \in Nat /\ AnalysisAt <= AnalysisAt'
  BY <1>1, <1>2
<1> QED
  BY <1>3, ReleasedKept

\* What the invariant says of the iterators, for the steps that leave them.
LEMMA ReadersBehind ==
  ASSUME QueueInv, ReleasedInv
  PROVE  \A i \in iterators : pos[i] = End \/ (pos[i] \in Nat /\ released_before_ <= pos[i])
<1>1. pos \in [Iterators -> Nat] /\ iterators \subseteq Iterators /\ released_before_ \in Nat
  BY ReleasedTypes
<1> QED
  BY <1>1 DEF ReleasedInv, ReadersKeepDecodedData

\* Reload, clear() and a restart leave an empty queue behind the boundary.
LEMMA ReleasedReload ==
  ASSUME QueueInv, ReleasedInv, NEW s \in Settings, Reload(s)
  PROVE  ReleasedInv'
<1>1. /\ UNCHANGED <<pkts, front, iterators, pos, step, released_before_>> /\ streams = 0
  BY DEF Reload, boundaryVars, analysisVars
<1>2. front > Last /\ step = "idle"
  BY <1>1 DEF QueueInv, ThreadsCoherent, Empty
<1>3. /\ front \in Nat /\ Last \in Nat /\ released_before_ \in Nat /\ released_before_ <= Last
  BY ReleasedTypes DEF ReleasedInv
<1>4. Last' = Last
  BY <1>1 DEF Last
<1>5. \A i \in iterators' :
        pos'[i] = End \/ (pos'[i] \in Nat /\ released_before_' <= pos'[i])
  BY <1>1, ReadersBehind
<1>6. /\ released_before_' \in Nat /\ released_before_' <= Last' /\ front' \in Nat
      /\ released_before_' <= front' /\ step' # "open"
  BY <1>1, <1>2, <1>3, <1>4
<1> QED
  BY <1>5, <1>6, ReleasedBehind

\* An emptied queue has nothing released that a reader could come to.
LEMMA ReleasedEmptied ==
  ASSUME QueueInv, ReleasedInv, Clear \/ StaleSnapshot
  PROVE  ReleasedInv'
<1>1. /\ front \in Nat /\ Last \in Nat /\ released_before_ \in Nat /\ released_before_ <= Last
      /\ iterators \subseteq Iterators
  BY ReleasedTypes DEF ReleasedInv
<1>2. /\ front' = Last + 1 /\ pkts' = pkts /\ step' # "open"
      /\ released_before_' \in {released_before_, 0}
      /\ \A i \in iterators' : pos'[i] = End
  BY <1>1 DEF Clear, StaleSnapshot, Joined, boundaryVars, analysisVars
<1>3. Last' = Last
  BY <1>2 DEF Last
<1>4. /\ released_before_' \in Nat /\ released_before_' <= Last' /\ front' \in Nat
      /\ released_before_' <= front'
  BY <1>1, <1>2, <1>3
<1> QED
  BY <1>2, <1>4, ReleasedBehind

\* PrimeCapture registers iterators at the end of an empty queue.
LEMMA ReleasedPrime ==
  ASSUME QueueInv, ReleasedInv, NEW n \in Cameras, PrimeCapture(n)
  PROVE  ReleasedInv'
<1>1. /\ UNCHANGED <<pkts, front, cfg, released_before_, pos, step, snap>>
      /\ iterators' \subseteq iterators \cup {"analysis", "decoder"}
  BY DEF PrimeCapture, boundaryVars, analysisVars
<1>2. ASSUME NEW i \in iterators'
      PROVE  pos'[i] = End \/ (pos'[i] \in Nat /\ released_before_ <= pos'[i])
  <2>1. CASE i \in iterators
    BY <2>1, <1>1, ReadersBehind
  <2>2. CASE i \notin iterators
    BY <2>2, <1>1, <1>2, NamesApart DEF QueueInv, ThreadsCoherent
  <2> QED
    BY <2>1, <2>2
<1> QED
  BY <1>1, <1>2, ReleasedQuiet

\* Steps of the threads that move no iterator
LEMMA ReleasedStill ==
  ASSUME QueueInv, ReleasedInv,
         \/ Stop \/ PauseClosesEvent \/ CloseEvent \/ AnalyseGet \/ AnalyseRetry
         \/ NoEventWork \/ StartEvent
         \/ \E r \in Iterators : ReaderGet(r) \/ ReaderRetry(r)
  PROVE  ReleasedInv'
<1>1. /\ UNCHANGED <<pkts, front, cfg, released_before_, iterators, pos>>
      /\ step' = "open" => step = "open" /\ snap' = snap
  BY DEF Stop, PauseClosesEvent, CloseEvent, AnalyseGet, AnalyseRetry, NoEventWork,
     StartEvent, ReaderGet, ReaderRetry, queueVars, boundaryVars, analysisVars, AfterEvents
<1> QED
  BY <1>1, ReadersBehind, ReleasedQuiet

\* A reader steps on.
LEMMA ReleasedIncrement ==
  ASSUME QueueInv, ReleasedInv, NEW r \in Iterators, ReaderIncrement(r)
  PROVE  ReleasedInv'
<1>1. /\ UNCHANGED <<pkts, front, cfg, released_before_, iterators, step, snap>>
      /\ pos' = [pos EXCEPT ![r] = Incremented(r)] /\ r \in Readers
  BY DEF ReaderIncrement, queueVars, boundaryVars, analysisVars
<1>2. r # "analysis"
  BY <1>1, NamesApart DEF Readers, QueueInv, TypeOK
<1>3. pos \in [Iterators -> Nat] /\ iterators \subseteq Iterators /\ released_before_ \in Nat
  BY ReleasedTypes
<1>4. ASSUME NEW i \in iterators'
      PROVE  pos'[i] = End \/ (pos'[i] \in Nat /\ released_before_ <= pos'[i])
  <2>1. i \in iterators /\ i \in Iterators
    BY <1>1, <1>3, <1>4
  <2>2. pos[i] = End \/ (pos[i] \in Nat /\ released_before_ <= pos[i])
    BY <2>1, ReadersBehind
  <2>3. CASE i # r
    BY <2>1, <2>2, <2>3, <1>1, <1>3
  <2>4. CASE i = r
    <3>1. pos'[i] = Incremented(i)
      BY <2>1, <2>4, <1>1, <1>3
    <3> QED
      BY <2>2, <3>1, <1>3 DEF Incremented
  <2> QED
    BY <2>3, <2>4
<1>5. pos'["analysis"] = pos["analysis"]
  BY <1>1, <1>2, <1>3, NamesApart
<1> QED
  BY <1>1, <1>4, <1>5, ReleasedQuiet

\* An event's iterator is unregistered.
LEMMA ReleasedFree ==
  ASSUME QueueInv, ReleasedInv, FreeIt \/ NoStartingPacket
  PROVE  ReleasedInv'
<1> USE DEF queueVars, boundaryVars, analysisVars
<1>1. PICK e \in Events \cup {None} :
        /\ iterators' = iterators \ {e} /\ pos' = [pos EXCEPT ![e] = End]
  BY DEF FreeIt, NoStartingPacket, QueueInv, TypeOK
<1>2. UNCHANGED <<pkts, front, cfg, released_before_>> /\
      (step' = "open" => step = "open" /\ snap' = snap)
  BY DEF FreeIt, NoStartingPacket, AfterEvents
<1>3. pos \in [Iterators -> Nat] /\ iterators \subseteq Iterators
  BY ReleasedTypes
<1>4. e # "analysis"
  BY <1>1, NamesApart
<1>5. \A i \in iterators' : i \in iterators /\ pos'[i] = pos[i]
  BY <1>1, <1>3
<1>6. \A i \in iterators' :
        pos'[i] = End \/ (pos'[i] \in Nat /\ released_before_ <= pos'[i])
  BY <1>5, ReadersBehind
<1>7. pos'["analysis"] = pos["analysis"]
  BY <1>1, <1>3, <1>4, NamesApart
<1> QED
  BY <1>2, <1>6, <1>7, ReleasedQuiet

\* openEvent reads analysis_it, which is behind the boundary.
LEMMA ReleasedRead ==
  ASSUME QueueInv, ReleasedInv, ReadAnalysisIt
  PROVE  ReleasedInv'
<1>1. /\ UNCHANGED <<pkts, front, cfg, released_before_, iterators, pos>>
      /\ step # "idle" /\ snap' = pos["analysis"]
  BY DEF ReadAnalysisIt, queueVars, boundaryVars
<1>2. "analysis" \in iterators /\ pos["analysis"] # End
  BY <1>1 DEF QueueInv, ThreadsCoherent
<1>3. snap' = AnalysisAt /\ released_before_ <= snap'
  BY <1>1, <1>2, ReadersBehind DEF AnalysisAt
<1>4. /\ front \in Nat /\ Last \in Nat /\ AnalysisAt \in Nat
  BY ReleasedTypes
<1>5. Last' = Last /\ AnalysisAt' = AnalysisAt
  BY <1>1 DEF Last, AnalysisAt
<1>6. /\ Last' \in Nat /\ Last <= Last' /\ \A j \in 1 .. Last : pkts'[j] = pkts[j]
      /\ front' \in Nat /\ front <= front' /\ AnalysisAt' \in Nat /\ AnalysisAt <= AnalysisAt'
  BY <1>1, <1>4, <1>5
<1>7. \A i \in iterators' :
        pos'[i] = End \/ (pos'[i] \in Nat /\ released_before_ <= pos'[i])
  BY <1>1, ReadersBehind
<1> QED
  BY <1>1, <1>3, <1>6, <1>7, ReleasedKept

\* The iterator of a new event is registered behind the boundary.
LEMMA ReleasedGetStart ==
  ASSUME QueueInv, ReleasedInv, NEW e \in Events, NEW n \in {0, cfg.pre}, GetEventStart(e, n)
  PROVE  ReleasedInv'
<1>1. /\ UNCHANGED <<pkts, front, cfg, released_before_>> /\ step' # "open"
      /\ iterators' = iterators \cup {e} /\ e \notin iterators
      /\ pos' = [pos EXCEPT ![e] = EventStart(snap, n, released_before_)]
      /\ step = "open" /\ snap >= front
  BY DEF GetEventStart, queueVars, boundaryVars
<1>2. /\ pos \in [Iterators -> Nat] /\ iterators \subseteq Iterators /\ released_before_ \in Nat
      /\ front \in Nat /\ snap \in Nat /\ snap <= Last /\ cfg.pre \in Nat
  BY <1>1, ReleasedTypes
<1>3. released_before_ <= snap
  BY <1>1, <1>2 DEF ReleasedInv
<1>4. n \in Nat
  BY <1>2
<1>5. /\ EventStart(snap, n, released_before_) \in front .. snap
      /\ released_before_ <= EventStart(snap, n, released_before_)
  BY <1>1, <1>2, <1>3, <1>4, EventStartProperty DEF QueueInv
<1>6. ASSUME NEW i \in iterators'
      PROVE  pos'[i] = End \/ (pos'[i] \in Nat /\ released_before_ <= pos'[i])
  <2>1. CASE i = e
    BY <2>1, <1>1, <1>2, <1>5, NamesApart
  <2>2. CASE i # e
    <3>1. i \in iterators /\ pos'[i] = pos[i]
      BY <2>2, <1>1, <1>2, <1>6
    <3> QED
      BY <3>1, ReadersBehind
  <2> QED
    BY <2>1, <2>2
<1>7. pos'["analysis"] = pos["analysis"]
  BY <1>1, <1>2, NamesApart
<1> QED
  BY <1>1, <1>6, <1>7, ReleasedQuiet

\* Analyse steps on.
LEMMA ReleasedAnalyseIncrement ==
  ASSUME QueueInv, ReleasedInv, AnalyseIncrement
  PROVE  ReleasedInv'
<1>1. /\ UNCHANGED <<pkts, front, cfg, released_before_, iterators>> /\ step' # "open"
      /\ pos' = [pos EXCEPT !["analysis"] = Incremented("analysis")]
  BY DEF AnalyseIncrement, queueVars, boundaryVars
<1>2. /\ pos \in [Iterators -> Nat] /\ iterators \subseteq Iterators /\ released_before_ \in Nat
      /\ front \in Nat /\ Last \in Nat /\ AnalysisAt \in Nat /\ AnalysisAt <= Last
  BY ReleasedTypes
<1>3. pos'["analysis"] = Incremented("analysis")
  BY <1>1, <1>2, NamesApart
<1>4. Last' = Last
  BY <1>1 DEF Last
<1>5. AnalysisAt' \in Nat /\ AnalysisAt <= AnalysisAt'
  BY <1>2, <1>3, <1>4 DEF AnalysisAt, Incremented, End
<1>6. ASSUME NEW i \in iterators'
      PROVE  pos'[i] = End \/ (pos'[i] \in Nat /\ released_before_ <= pos'[i])
  <2>1. i \in iterators /\ i \in Iterators
    BY <1>1, <1>2, <1>6
  <2>2. pos[i] = End \/ (pos[i] \in Nat /\ released_before_ <= pos[i])
    BY <2>1, ReadersBehind
  <2>3. CASE i # "analysis"
    BY <2>1, <2>2, <2>3, <1>1, <1>2
  <2>4. CASE i = "analysis"
    BY <2>2, <2>4, <1>2, <1>3 DEF Incremented
  <2> QED
    BY <2>3, <2>4
<1>7. /\ Last' \in Nat /\ Last <= Last' /\ \A j \in 1 .. Last : pkts'[j] = pkts[j]
      /\ front' \in Nat /\ front <= front'
  BY <1>1, <1>2, <1>4
<1> QED
  BY <1>1, <1>5, <1>6, <1>7, ReleasedKept

\* clearPackets only moves the front on.
LEMMA ClearMovesOn ==
  ASSUME QueueInv, ClearPackets
  PROVE  /\ front' \in Nat /\ front <= front'
         /\ \/ front' = front
            \/ /\ front' \in front + 1 .. Last
               /\ \/ ~cfg.keep /\ front' = TrimmedFront(Analysed)
                  \/ cfg.keep /\ front' = NextFront(Analysed)
<1>1. step = "clear"
  BY DEF ClearPackets
<1>2. front \in Nat
  BY ReleasedTypes
<1>3. \/ front' = front
      \/ ~cfg.keep /\ front' = TrimmedFront(Analysed)
      \/ cfg.keep /\ front' = NextFront(Analysed)
  BY DEF ClearPackets, ClearTo
<1>4. CASE front' = front
  BY <1>2, <1>4
<1>5. CASE front' # front
  <2>1. front' \in front + 1 .. Last
    <3>1. CASE ~cfg.keep /\ front' = TrimmedFront(Analysed)
      BY <1>1, <1>5, <3>1, TrimmedFrontProperty
    <3>2. CASE cfg.keep /\ front' = NextFront(Analysed)
      BY <1>1, <1>5, <3>2, NextFrontProperty
    <3> QED
      BY <1>3, <1>5, <3>1, <3>2
  <2> QED
    BY <1>2, <1>3, <1>5, <2>1
<1> QED
  BY <1>4, <1>5

\* clearPackets trims behind the readers, or before the window of the next event.
LEMMA ReleasedClear ==
  ASSUME QueueInv, ReleasedInv, ClearPackets
  PROVE  ReleasedInv'
<1>1. UNCHANGED <<pkts, cfg, released_before_, iterators, pos>> /\ step' # "open"
  BY DEF ClearPackets, boundaryVars
<1>2. Last \in Nat /\ AnalysisAt \in Nat
  BY ReleasedTypes
<1>3. Last' = Last /\ AnalysisAt' = AnalysisAt
  BY <1>1 DEF Last, AnalysisAt
<1>4. /\ Last' \in Nat /\ Last <= Last' /\ \A j \in 1 .. Last : pkts'[j] = pkts[j]
      /\ AnalysisAt' \in Nat /\ AnalysisAt <= AnalysisAt'
  BY <1>1, <1>2, <1>3
<1>5. front' \in Nat /\ front <= front'
  BY ClearMovesOn
<1>6. \A i \in iterators' :
        pos'[i] = End \/ (pos'[i] \in Nat /\ released_before_ <= pos'[i])
  BY <1>1, ReadersBehind
<1> QED
  BY <1>1, <1>4, <1>5, <1>6, ReleasedKept

\* Where queuePacket leaves packets, front and iterators.
LEMMA QueuePacketMoves ==
  ASSUME QueueInv, NEW kind \in {"key", "delta", "audio"}, QueuePacket(kind)
  PROVE  /\ Last' = Last + 1 /\ pkts'[Last + 1] = kind
         /\ \A j \in 1 .. Last : pkts'[j] = pkts[j]
         /\ front' \in Nat /\ front <= front' /\ front' <= Last + 1
         /\ \A i \in Iterators :
              pos'[i] = IF i \notin iterators THEN pos[i]
                        ELSE IF pos[i] = End THEN Last + 1
                        ELSE IF pos[i] < front' THEN front' ELSE pos[i]
<1> DEFINE counts == IF kind = "audio"
                       THEN [packet_counts EXCEPT !.audio = @ + 1]
                       ELSE [packet_counts EXCEPT !.video = @ + 1]
           moved == [i \in Iterators |-> IF i \in iterators /\ pos[i] = End
                                           THEN Last + 1 ELSE pos[i]]
           f == IF kind = "audio" THEN front ELSE OverflowFront(counts)
<1>1. front' = f /\ pos' = BumpedTo(f, moved) /\ pkts' = Append(pkts, kind)
  BY DEF QueuePacket
<1>2. /\ pkts \in Seq({"key", "delta", "audio"}) /\ front \in Nat /\ Last \in Nat
      /\ front <= Last + 1 /\ Last = Len(pkts) /\ pos \in [Iterators -> Nat]
  BY DEF QueueInv, TypeOK, Last
<1>3. /\ Last' = Last + 1 /\ pkts'[Last + 1] = kind
      /\ \A j \in 1 .. Last : pkts'[j] = pkts[j]
  BY <1>1, <1>2 DEF Last
<1>4. f = front \/ f \in front + 1 .. Last
  BY OverflowFrontProperty DEF QueueInv
<1> HIDE DEF counts, f
<1>5. front' \in Nat /\ front <= front' /\ front' <= Last + 1
  BY <1>1, <1>2, <1>4
<1>6. ASSUME NEW i \in Iterators
      PROVE  pos'[i] = IF i \notin iterators THEN pos[i]
                       ELSE IF pos[i] = End THEN Last + 1
                       ELSE IF pos[i] < front' THEN front' ELSE pos[i]
  <2>1. moved[i] = IF i \in iterators /\ pos[i] = End THEN Last + 1 ELSE pos[i]
    OBVIOUS
  <2> HIDE DEF moved
  <2>2. pos'[i] = IF i \in iterators /\ moved[i] # End /\ moved[i] < f THEN f ELSE moved[i]
    BY <1>1 DEF BumpedTo
  <2>3. pos[i] \in Nat
    BY <1>2
  <2> QED
    BY <2>1, <2>2, <2>3, <1>1, <1>2, <1>5 DEF End
<1> QED
  BY <1>3, <1>5, <1>6

\* A queued packet keeps what was released behind the readers and the window.
LEMMA ReleasedQueue ==
  ASSUME QueueInv, ReleasedInv, NEW kind \in {"key", "delta", "audio"}, QueuePacket(kind)
  PROVE  ReleasedInv'
<1>1. UNCHANGED <<cfg, released_before_, iterators, step, snap>>
  BY DEF QueuePacket, boundaryVars, analysisVars
<1>2. /\ pos \in [Iterators -> Nat] /\ iterators \subseteq Iterators /\ released_before_ \in Nat
      /\ front \in Nat /\ Last \in Nat /\ AnalysisAt \in Nat /\ AnalysisAt <= Last
      /\ released_before_ <= Last
  BY ReleasedTypes DEF ReleasedInv
<1>3. /\ Last' = Last + 1 /\ \A j \in 1 .. Last : pkts'[j] = pkts[j]
      /\ front' \in Nat /\ front <= front' /\ front' <= Last + 1
      /\ \A i \in Iterators :
           pos'[i] = IF i \notin iterators THEN pos[i]
                     ELSE IF pos[i] = End THEN Last + 1
                     ELSE IF pos[i] < front' THEN front' ELSE pos[i]
  BY QueuePacketMoves
<1>4. Last' \in Nat /\ Last <= Last'
  BY <1>2, <1>3
<1>5. ASSUME NEW i \in iterators'
      PROVE  pos'[i] = End \/ (pos'[i] \in Nat /\ released_before_ <= pos'[i])
  <2>1. i \in iterators /\ i \in Iterators
    BY <1>1, <1>2, <1>5
  <2>2. pos[i] = End \/ (pos[i] \in Nat /\ released_before_ <= pos[i])
    BY <2>1, ReadersBehind
  <2> QED
    BY <2>1, <2>2, <1>2, <1>3
<1>6. AnalysisAt' \in Nat /\ AnalysisAt <= AnalysisAt'
  <2>1. "analysis" \in Iterators
    BY NamesApart
  <2>2. pos["analysis"] \in Nat
    BY <2>1, <1>2
  <2>3. pos'["analysis"] = IF "analysis" \notin iterators THEN pos["analysis"]
                           ELSE IF pos["analysis"] = End THEN Last + 1
                           ELSE IF pos["analysis"] < front' THEN front' ELSE pos["analysis"]
    BY <2>1, <1>3
  <2> QED
    BY <2>2, <2>3, <1>2, <1>3 DEF AnalysisAt, End
<1> QED
  BY <1>1, <1>3, <1>4, <1>5, <1>6, ReleasedKept

\* releaseDecoded with a whole window: the window begins at PreEventStart, not
\* after any iterator, and the boundary is not later.
LEMMA ReleaseFacts ==
  ASSUME QueueInv, step = "release"
  PROVE  /\ ReleaseBase \in front .. Last /\ \A q \in Pinned : q \in Nat /\ ReleaseBase <= q
         /\ pos["analysis"] \in Pinned
         /\ ReleaseWindow = Video(front + 1, ReleaseBase)
         /\ Cardinality(ReleaseWindow) = VideoCount(front + 1, ReleaseBase)
         /\ VideoCount(front + 1, ReleaseBase) >= cfg.pre =>
              /\ PreEventStart \in front .. ReleaseBase - 1
              /\ VideoCount(PreEventStart + 1, ReleaseBase) = cfg.pre
              /\ ReleaseBoundary \in front .. PreEventStart
              /\ ReleaseBoundary > front =>
                   /\ VideoCount(ReleaseBoundary + 1, ReleaseBase) >= cfg.pre
                   /\ cfg.keep => IsKey(ReleaseBoundary)
<1> DEFINE B == ReleaseBase
           P == PreEventStart
<1>1. /\ front \in Nat /\ Last \in Nat /\ cfg.pre \in Nat \ {0} /\ pos \in [Iterators -> Nat]
      /\ iterators \subseteq Iterators
  BY ReleasedTypes
<1>2. pos["analysis"] \in Pinned
  BY AnalysisIterator DEF Pinned, QueueInv, ThreadsCoherent
<1>3. Pinned \subseteq front .. Last
  BY <1>1 DEF Pinned, QueueInv, IteratorsValid
<1>4. Pinned \subseteq Nat /\ Pinned # {}
  BY <1>1, <1>2, <1>3
<1>5. Min(Pinned) \in Pinned /\ \A q \in Pinned : Min(Pinned) <= q
  BY <1>4, MinProperty
<1>6. B = Min(Pinned)
  BY <1>4 DEF ReleaseBase
<1>7. B \in front .. Last /\ \A q \in Pinned : q \in Nat /\ B <= q
  BY <1>3, <1>4, <1>5, <1>6
<1>8. ReleaseWindow = Video(front + 1, B) /\ Cardinality(ReleaseWindow) = VideoCount(front + 1, B)
  BY DEF ReleaseWindow, VideoCount
<1> HIDE DEF B, P
<1>9. ASSUME VideoCount(front + 1, B) >= cfg.pre
      PROVE  /\ P \in front .. B - 1 /\ VideoCount(P + 1, B) = cfg.pre
             /\ ReleaseBoundary \in front .. P
             /\ ReleaseBoundary > front =>
                  /\ VideoCount(ReleaseBoundary + 1, B) >= cfg.pre
                  /\ cfg.keep => IsKey(ReleaseBoundary)
  <2> DEFINE x == NthLast(Video(front + 1, B), cfg.pre)
             K == Keys(front + 1, P)
  <2>1. P = x - 1
    BY <1>8 DEF PreEventStart, P
  <2>2. B \in Nat
    BY <1>1, <1>7
  <2>3. /\ x \in Nat /\ front + 1 <= x /\ x <= B /\ VideoCount(x, B) = cfg.pre
    BY <1>1, <1>9, <2>2, WindowStart
  <2> HIDE DEF x
  <2>4. P + 1 = x /\ P \in Nat /\ P \in front .. B - 1
    BY <1>1, <2>1, <2>2, <2>3
  <2>5. VideoCount(P + 1, B) = cfg.pre
    BY <2>3, <2>4
  <2>6. ReleaseBoundary = IF ~cfg.keep THEN P ELSE IF K = {} THEN front ELSE Max(K)
    BY Zenon DEF ReleaseBoundary, P
  <2>7. CASE ~cfg.keep
    BY <2>4, <2>5, <2>6, <2>7, <1>1
  <2>8. CASE cfg.keep /\ K = {}
    BY <2>4, <2>5, <2>6, <2>8, <1>1
  <2>9. CASE cfg.keep /\ K # {}
    <3>1. K \subseteq Nat /\ \A i \in K : i <= P
      BY <1>1, <2>4 DEF Keys
    <3>2. Max(K) \in K
      <4> HIDE DEF K
      <4> QED
        BY <2>4, <2>9, <3>1, MaxProperty
    <3>3. ReleaseBoundary \in K
      BY <2>6, <2>9, <3>2
    <3>4. ReleaseBoundary \in front .. P /\ IsKey(ReleaseBoundary) /\ ReleaseBoundary \in Nat
      BY <1>1, <2>4, <3>3 DEF Keys
    <3>5. VideoCount(P + 1, B) <= VideoCount(ReleaseBoundary + 1, B)
      BY <2>2, <2>4, <3>4, VideoCountMonotone
    <3> QED
      BY <2>4, <2>5, <3>4, <3>5
  <2> QED
    BY <2>4, <2>5, <2>7, <2>8, <2>9
<1> QED
  BY <1>2, <1>7, <1>8, <1>9 DEF B, P

\* releaseDecoded stops short of the readers and of the window of the next event.
LEMMA ReleasedRelease ==
  ASSUME QueueInv, ReleasedInv, ReleaseDecoded
  PROVE  ReleasedInv'
<1> DEFINE b == ReleaseBoundary
           B == ReleaseBase
<1>1. /\ UNCHANGED <<pkts, front, cfg, iterators, pos>> /\ step' # "open" /\ step = "release"
  BY DEF ReleaseDecoded, queueVars
<1>2. /\ pos \in [Iterators -> Nat] /\ iterators \subseteq Iterators /\ released_before_ \in Nat
      /\ front \in Nat /\ Last \in Nat /\ AnalysisAt \in Nat /\ AnalysisAt <= Last
      /\ released_before_ <= Last /\ cfg.pre \in Nat
  BY ReleasedTypes DEF ReleasedInv
<1>3. CASE released_before_' = released_before_
  BY <1>1, <1>3, ReadersBehind, ReleasedQuiet
<1>4. CASE released_before_' # released_before_
  <2>1. /\ ~(Cardinality(ReleaseWindow) < cfg.pre)
        /\ released_before_' = Max({released_before_, b})
    BY <1>4 DEF ReleaseDecoded, boundaryVars
  <2>2. /\ B \in front .. Last /\ \A q \in Pinned : q \in Nat /\ B <= q
        /\ pos["analysis"] \in Pinned
        /\ Cardinality(ReleaseWindow) = VideoCount(front + 1, B)
        /\ VideoCount(front + 1, B) >= cfg.pre =>
             /\ PreEventStart \in front .. B - 1
             /\ b \in front .. PreEventStart
             /\ b > front => VideoCount(b + 1, B) >= cfg.pre /\ (cfg.keep => IsKey(b))
    BY <1>1, ReleaseFacts
  <2> HIDE DEF b, B
  <2>3. VideoCount(front + 1, B) >= cfg.pre
    <3>1. front + 1 \in Int /\ B \in Int
      BY <1>2, <2>2
    <3>2. VideoCount(front + 1, B) \in Nat
      BY <3>1, VideoCountType
    <3> QED
      BY <3>2, <2>1, <2>2, <1>2
  <2>4. b \in Nat /\ B \in Nat /\ front <= b /\ b < B /\ B <= Last
    BY <1>2, <2>2, <2>3
  <2>5. released_before_' = b
    BY <1>2, <1>4, <2>1, <2>4, MaxOfTwo
  <2>6. Last' = Last
    BY <1>1 DEF Last
  <2>7. ASSUME NEW i \in iterators'
        PROVE  pos'[i] = End \/ (pos'[i] \in Nat /\ b <= pos'[i])
    <3>1. i \in iterators /\ pos'[i] = pos[i]
      BY <1>1, <2>7
    <3>2. pos[i] # End => pos[i] \in Pinned
      BY <3>1 DEF Pinned
    <3> QED
      BY <3>1, <3>2, <2>2, <2>4
  <2>8. CASE b = front
    <3>1. /\ released_before_' \in Nat /\ released_before_' <= Last' /\ front' \in Nat
          /\ released_before_' <= front'
      BY <1>1, <1>2, <2>4, <2>5, <2>6, <2>8
    <3> QED
      BY <1>1, <2>5, <2>7, <3>1, ReleasedBehind
  <2>9. CASE b > front
    <3>1. pos["analysis"] \in Nat /\ B <= pos["analysis"] /\ AnalysisAt = pos["analysis"]
            /\ AnalysisAt' = pos["analysis"]
      BY <1>1, <2>2, <2>4 DEF AnalysisAt, Pinned
    <3>2. VideoCount(b + 1, B) <= VideoCount(b + 1, pos["analysis"])
      BY <2>4, <3>1, VideoCountMonotone
    <3>3. VideoCount(b + 1, B) >= cfg.pre /\ (cfg.keep => IsKey(b))
      BY <2>2, <2>3, <2>9
    <3>4. /\ VideoCount(b + 1, B) \in Nat /\ VideoCount(b + 1, pos["analysis"]) \in Nat
      <4>1. b + 1 \in Int /\ B \in Int /\ pos["analysis"] \in Int
        BY <2>4, <3>1
      <4> QED
        BY <4>1, VideoCountType
    <3>5. VideoCount(b + 1, pos["analysis"]) >= cfg.pre
      BY <3>2, <3>3, <3>4, <1>2
    <3>6. VideoCount(released_before_ + 1, AnalysisAt)' = VideoCount(b + 1, pos["analysis"])
      BY <1>1, <2>5, <3>1 DEF VideoCount, Video, IsVideo
    <3>7. VideoCount(released_before_ + 1, AnalysisAt)' >= cfg.pre'
      BY <1>1, <3>5, <3>6
    <3>8. cfg.keep' => IsKey(released_before_)'
      BY <1>1, <2>5, <3>3 DEF IsKey
    <3>9. ReadersKeepDecodedData'
      BY <2>5, <2>7 DEF ReadersKeepDecodedData
    <3>10. released_before_' <= Last'
      BY <2>4, <2>5, <2>6, <1>2
    <3> QED
      BY <1>1, <3>7, <3>8, <3>9, <3>10 DEF ReleasedInv
  <2> QED
    BY <2>4, <2>8, <2>9, <1>2
<1> QED
  BY <1>3, <1>4

\* Every step of every thread keeps it.
LEMMA ReleasedNext == QueueInv /\ ReleasedInv /\ [Next]_vars => ReleasedInv'
<1> SUFFICES ASSUME QueueInv, ReleasedInv, [Next]_vars PROVE ReleasedInv'
  OBVIOUS
<1>1. CASE Capture
  BY <1>1, ReleasedReload, ReleasedPrime, ReleasedQueue, ReleasedStill, ReleasedEmptied
  DEF Capture
<1>2. CASE Analysis
  BY <1>2, ReleasedStill, ReleasedRead, ReleasedGetStart, ReleasedEmptied, ReleasedFree,
     ReleasedClear, ReleasedRelease, ReleasedAnalyseIncrement
  DEF Analysis
<1>3. CASE Reader
  BY <1>3, ReleasedStill, ReleasedIncrement, ReleasedFree DEF Reader
<1>4. CASE UNCHANGED vars
  <2>1. UNCHANGED <<pkts, front, cfg, released_before_, iterators, pos, step, snap>>
    BY <1>4 DEF vars, queueVars, boundaryVars, analysisVars
  <2> QED
    BY <2>1, ReadersBehind, ReleasedQuiet
<1> QED
  BY <1>1, <1>2, <1>3, <1>4 DEF Next

\* What releaseDecoded frees lies behind every reader and outside every
\* pre-event window, whatever the capture thread queues, drops or reloads.
THEOREM ReleasedInvariant == Spec => [](QueueInv /\ ReleasedInv)
<1>1. Init => QueueInv /\ ReleasedInv
  <2> SUFFICES ASSUME Init PROVE ReleasedInv
    BY InitInv
  <2>1. /\ released_before_ = 0 /\ front = 1 /\ iterators = {} /\ step = "idle" /\ Last = 0
    BY DEF Init, Last
  <2> QED
    BY <2>1 DEF ReleasedInv, ReadersKeepDecodedData
<1>2. QueueInv /\ ReleasedInv /\ [Next]_vars => (QueueInv /\ ReleasedInv)'
  BY NextInv, ReleasedNext
<1> QED
  BY <1>1, <1>2, PTL DEF Spec

\* No reader ever meets a packet whose decoded data was freed.
THEOREM ReadersAlwaysKeepDecodedData == Spec => []ReadersKeepDecodedData
<1>1. QueueInv /\ ReleasedInv => ReadersKeepDecodedData
  BY DEF ReleasedInv
<1> QED
  BY <1>1, ReleasedInvariant, PTL

\* The start of an event is the one it would have if releaseDecoded had freed
\* nothing.
THEOREM ReleaseAlwaysKeepsEventStart == Spec => []ReleaseKeepsEventStart
<1>1. QueueInv /\ ReleasedInv => ReleaseKeepsEventStart
  <2> SUFFICES ASSUME QueueInv, ReleasedInv, step = "open", snap >= front,
                      NEW n \in {0, cfg.pre}
               PROVE  EventStart(snap, n, released_before_) = EventStart(snap, n, 0)
    BY DEF ReleaseKeepsEventStart
  <2>1. /\ front \in Nat /\ released_before_ \in Nat /\ cfg.pre \in Nat /\ snap \in Nat
        /\ snap <= Last /\ front <= snap /\ released_before_ <= snap /\ TypeOK
    BY ReleasedTypes DEF ReleasedInv, QueueInv
  <2>2. n \in Nat /\ n <= cfg.pre
    BY <2>1
  <2>3. released_before_ > front =>
          VideoCount(released_before_ + 1, snap) >= n /\ (cfg.keep => IsKey(released_before_))
    <3>1. SUFFICES ASSUME released_before_ > front
                   PROVE  VideoCount(released_before_ + 1, snap) >= n
                            /\ (cfg.keep => IsKey(released_before_))
      OBVIOUS
    <3>2. VideoCount(released_before_ + 1, snap) >= cfg.pre
            /\ (cfg.keep => IsKey(released_before_))
      BY <3>1 DEF ReleasedInv
    <3>3. released_before_ + 1 \in Int /\ snap \in Int
      BY <2>1
    <3>4. VideoCount(released_before_ + 1, snap) \in Nat
      BY <3>3, VideoCountType
    <3> QED
      BY <3>2, <3>4, <2>1, <2>2
  <2> QED
    BY <2>1, <2>2, <2>3, StartUnmoved
<1> QED
  BY <1>1, ReleasedInvariant, PTL

-----------------------------------------------------------------------------
(* What the steps of the analysis thread may not do *)

\* openEvent starts an event with its pre-event window or with all the queue
\* holds, in passthrough on a keyframe, and not earlier than that needs, although
\* it works with a copy of analysis_it and with a boundary of freed data.
THEOREM EventAlwaysOpensOnWindow == Spec => EventOpensOnWindow
<1>1. ASSUME QueueInv, ReleaseKeepsEventStart, NEW e \in Events, NEW n \in {0, cfg.pre},
             GetEventStart(e, n)
      PROVE  LET start == pos'[e] IN
             /\ start \in front .. snap
             /\ VideoCount(start, snap) >= n \/ start = front
             /\ cfg.keep => IsKey(start)
             /\ \A later \in start + 1 .. snap :
                  (cfg.keep => IsKey(later)) => VideoCount(later + 1, snap) < n
  <2>1. /\ step = "open" /\ snap >= front
        /\ pos' = [pos EXCEPT ![e] = EventStart(snap, n, released_before_)]
    BY <1>1 DEF GetEventStart
  <2>2. /\ front \in Nat /\ snap \in Nat /\ snap <= Last /\ front <= snap /\ cfg.pre \in Nat
        /\ pos \in [Iterators -> Nat] /\ e \in Iterators
    BY <1>1, <2>1, ReleasedTypes, NamesApart
  <2>3. n \in Nat
    BY <2>2
  <2>4. pos'[e] = EventStart(snap, n, 0)
    BY <1>1, <2>1, <2>2 DEF ReleaseKeepsEventStart
  <2> QED
    BY <1>1, <2>2, <2>3, <2>4, StartOnWindow
<1>2. ASSUME QueueInv, ReleaseKeepsEventStart, [Next]_vars
      PROVE  [\A e \in Events, n \in {0, cfg.pre} :
                GetEventStart(e, n) =>
                  LET start == pos'[e] IN
                  /\ start \in front .. snap
                  /\ VideoCount(start, snap) >= n \/ start = front
                  /\ cfg.keep => IsKey(start)
                  /\ \A later \in start + 1 .. snap :
                       (cfg.keep => IsKey(later)) => VideoCount(later + 1, snap) < n]_vars
  BY <1>1, <1>2
<1> QED
  BY <1>2, QueueInvariant, ReleaseAlwaysKeepsEventStart, PTL DEF Spec, EventOpensOnWindow

\* clearPackets without keyframes leaves the window of the analysed packet.
LEMMA TrimmedWindow ==
  ASSUME QueueInv, step = "clear", NEW f, f = TrimmedFront(Analysed), f # front
  PROVE  VideoCount(f, Analysed) >= cfg.pre
<1> DEFINE p == Analysed
<1>1. /\ f \in front + 1 .. Last /\ f <= p
      /\ packet_counts.video - VideoCount(front, f - 1) >= cfg.pre + TailCount(p)
  BY TrimmedFrontProperty
<1>2. /\ front \in Nat /\ Last \in Nat /\ cfg.pre \in Nat
  BY ReleasedTypes
<1>3. p \in Nat /\ p <= Last
  BY <1>2, AnalysisIterator
<1> HIDE DEF p
<1>4. TailCount(p) = VideoCount(p + 1, Last)
  BY <1>1, <1>2, <1>3 DEF TailCount
<1>5. /\ f \in Int /\ front \in Int /\ Last \in Int /\ p \in Int /\ p + 1 \in Int
      /\ f - 1 \in Int /\ front <= f /\ f <= Last + 1 /\ f <= p + 1 /\ p + 1 <= Last + 1
      /\ (p + 1) - 1 = p
  BY <1>1, <1>2, <1>3
<1>6. VideoCount(front, Last) = VideoCount(front, f - 1) + VideoCount(f, Last)
  BY <1>5, VideoCountSplit
<1>7. VideoCount(f, Last) = VideoCount(f, p) + VideoCount(p + 1, Last)
  <2>1. VideoCount(f, Last) = VideoCount(f, (p + 1) - 1) + VideoCount(p + 1, Last)
    BY <1>5, VideoCountSplit
  <2> QED
    BY <1>5, <2>1
<1>8. packet_counts.video = VideoCount(front, Last)
  BY DEF QueueInv, CountsExact
<1>9. VideoCount(front, f - 1) \in Nat /\ VideoCount(f, p) \in Nat
  BY <1>5, VideoCountType
<1>10. VideoCount(p + 1, Last) \in Nat
  BY <1>5, VideoCountType
<1>11. VideoCount(f, p) >= cfg.pre
  BY <1>1, <1>2, <1>4, <1>6, <1>7, <1>8, <1>9, <1>10
<1> QED
  BY <1>11 DEF p

\* clearPackets with keyframes leaves it, too, if it drops more video than the
\* keyframe at the front.
LEMMA NextFrontWindow ==
  ASSUME QueueInv, cfg.keep, step = "clear", NEW f, f = NextFront(Analysed), f # front
  PROVE  VideoCount(f, Analysed) >= cfg.pre \/ Video(front + 1, f - 1) = {}
<1> DEFINE p == Analysed
           V == Video(front + 1, f - 1)
<1>1. SUFFICES ASSUME V # {} PROVE VideoCount(f, p) >= cfg.pre
  OBVIOUS
<1>2. f \in front + 1 .. Last /\ f <= p /\ f \in NextFronts(p)
  BY NextFrontProperty
<1>3. /\ front \in Nat /\ Last \in Nat /\ cfg.pre \in Nat
  BY ReleasedTypes
<1>4. p \in Nat /\ p <= Last
  BY <1>3, AnalysisIterator
<1>5. \A v \in V : packet_counts.video - VideoCount(front + 1, v) > cfg.pre + TailCount(p)
  BY <1>2 DEF NextFronts
<1> HIDE DEF p
<1>6. TailCount(p) = VideoCount(p + 1, Last)
  BY <1>2, <1>3, <1>4 DEF TailCount
<1>7. V \subseteq Nat /\ \A v \in V : v <= Last /\ front + 1 <= v /\ v <= f - 1
  BY <1>2, <1>3 DEF Video
<1>8. PICK v \in V : \A w \in V : w <= v
  <2> HIDE DEF V
  <2>1. Max(V) \in V /\ \A w \in V : w <= Max(V)
    BY <1>1, <1>3, <1>7, MaxProperty
  <2> QED
    BY <2>1
<1>9. v \in Nat /\ front + 1 <= v /\ v <= f - 1
  BY <1>7, <1>8
<1>10. /\ f \in Int /\ front \in Int /\ front + 1 \in Int /\ Last \in Int /\ p \in Int
       /\ p + 1 \in Int /\ f - 1 \in Int /\ v \in Int /\ v + 1 \in Int
       /\ front <= f /\ f <= Last + 1 /\ f <= p + 1 /\ p + 1 <= Last + 1
       /\ (p + 1) - 1 = p /\ (v + 1) - 1 = v /\ (front + 1) - 1 = front
       /\ front + 1 <= f /\ front + 1 <= v + 1 /\ v + 1 <= (f - 1) + 1
       /\ front + 1 <= Last + 1
  BY <1>2, <1>3, <1>4, <1>9
<1>11. VideoCount(v + 1, f - 1) = 0
  <2>1. Video(v + 1, f - 1) = {}
    <3>1. SUFFICES ASSUME NEW i \in Video(v + 1, f - 1) PROVE FALSE
      OBVIOUS
    <3>2. i \in V /\ i > v
      BY <1>3, <1>9, <3>1 DEF Video
    <3> QED
      BY <3>2, <1>7, <1>8, <1>9
  <2> QED
    BY <2>1, FS_EmptySet DEF VideoCount
<1>12. VideoCount(front + 1, f - 1) = VideoCount(front + 1, v) + VideoCount(v + 1, f - 1)
  <2>1. VideoCount(front + 1, f - 1)
          = VideoCount(front + 1, (v + 1) - 1) + VideoCount(v + 1, f - 1)
    BY <1>10, VideoCountSplit
  <2> QED
    BY <1>10, <2>1
<1>13. VideoCount(front, Last) = VideoCount(front, front) + VideoCount(front + 1, Last)
  <2>1. VideoCount(front, Last)
          = VideoCount(front, (front + 1) - 1) + VideoCount(front + 1, Last)
    BY <1>10, VideoCountSplit
  <2> QED
    BY <1>10, <2>1
<1>14. VideoCount(front + 1, Last) = VideoCount(front + 1, f - 1) + VideoCount(f, Last)
  BY <1>10, VideoCountSplit
<1>15. VideoCount(f, Last) = VideoCount(f, p) + VideoCount(p + 1, Last)
  <2>1. VideoCount(f, Last) = VideoCount(f, (p + 1) - 1) + VideoCount(p + 1, Last)
    BY <1>10, VideoCountSplit
  <2> QED
    BY <1>10, <2>1
<1>16. VideoCount(front, front) = 1
  <2>1. IsKey(front)
    BY <1>2, <1>3 DEF QueueInv, FrontIsKeyframe, Empty
  <2>2. IsVideo(front)
    BY <2>1 DEF IsKey, IsVideo
  <2> QED
    BY <2>2, <1>10, VideoCountOne
<1>17. packet_counts.video = VideoCount(front, Last)
  BY DEF QueueInv, CountsExact
<1>18. VideoCount(front + 1, v) \in Nat /\ VideoCount(f, p) \in Nat
  BY <1>10, VideoCountType
<1>19. VideoCount(p + 1, Last) \in Nat
  BY <1>10, VideoCountType
<1>20. packet_counts.video - VideoCount(front + 1, v) > cfg.pre + TailCount(p)
  BY <1>5, <1>8
<1> QED
  BY <1>3, <1>6, <1>11, <1>12, <1>13, <1>14, <1>15, <1>16, <1>17, <1>18, <1>19, <1>20

\* clearPackets removes no packet an iterator has yet to read and, but for a
\* keyframe alone at the front of a passthrough queue, none of the pre-event
\* window of the packet under analysis.
THEOREM TrimAlwaysLeavesWindow == Spec => TrimLeavesWindow
<1>1. ASSUME QueueInv, ClearPackets, front' # front
      PROVE  /\ \A i \in iterators : pos[i] # End => front' <= pos[i]
             /\ \/ VideoCount(front', Analysed) >= cfg.pre
                \/ cfg.keep /\ Video(front + 1, front' - 1) = {}
  <2>1. step = "clear"
    BY <1>1 DEF ClearPackets
  <2>2. \A i \in iterators : pos[i] # End => pos[i] \in Pinned
    BY DEF Pinned
  <2>3. CASE ~cfg.keep /\ front' = TrimmedFront(Analysed)
    <3>1. \A q \in Pinned : front' <= q
      BY <1>1, <2>1, <2>3, TrimmedFrontProperty
    <3>2. VideoCount(front', Analysed) >= cfg.pre
      BY <1>1, <2>1, <2>3, TrimmedWindow
    <3> QED
      BY <2>2, <3>1, <3>2
  <2>4. CASE cfg.keep /\ front' = NextFront(Analysed)
    <3>1. \A q \in Pinned : front' <= q
      BY <1>1, <2>1, <2>4, NextFrontProperty
    <3>2. VideoCount(front', Analysed) >= cfg.pre \/ Video(front + 1, front' - 1) = {}
      BY <1>1, <2>1, <2>4, NextFrontWindow
    <3> QED
      BY <2>2, <2>4, <3>1, <3>2
  <2> QED
    BY <1>1, <2>3, <2>4, ClearMovesOn
<1>2. ASSUME QueueInv, [Next]_vars
      PROVE  [ClearPackets /\ front' # front =>
                /\ \A i \in iterators : pos[i] # End => front' <= pos[i]
                /\ \/ VideoCount(front', Analysed) >= cfg.pre
                   \/ cfg.keep /\ Video(front + 1, front' - 1) = {}]_vars
  BY <1>1, <1>2
<1> QED
  BY <1>2, QueueInvariant, PTL DEF Spec, TrimLeavesWindow

\* Three elements: Max is one of them and not below any.
LEMMA MaxOfThree ==
  ASSUME NEW a \in Nat, NEW b \in Nat, NEW c \in Nat
  PROVE  /\ Max({a, b, c}) \in Nat
         /\ a <= Max({a, b, c}) /\ b <= Max({a, b, c}) /\ c <= Max({a, b, c})
<1> DEFINE S == {a, b, c}
<1>1. S \subseteq Nat /\ S # {} /\ \A i \in S : i <= a + b + c
  OBVIOUS
<1>2. a + b + c \in Nat
  OBVIOUS
<1>3. Max(S) \in S /\ \A j \in S : j <= Max(S)
  <2> HIDE DEF S
  <2> QED
    BY <1>1, <1>2, MaxProperty
<1>4. Max(S) \in Nat
  BY <1>1, <1>3
<1> QED
  BY <1>3, <1>4

\* After releaseDecoded, a passthrough queue keeps decoded data on at most
\* MaxImageBufferCount video packets, or on the pre-event window before its
\* slowest reader and what follows.
THEOREM DecodedDataAlwaysBounded == Spec => DecodedDataBounded
<1>1. ASSUME QueueInv, ReleaseDecoded, cfg.keep, cfg.max > 0, ~deleting,
             released_before_' \in Nat, capped_before_' \in Nat
      PROVE  LET kept == Max({released_before_', capped_before_', front}) IN
             \/ VideoCount(kept, Last) <= cfg.max
             \/ VideoCount(kept + 1, ReleaseBase) <= cfg.pre
  <2> DEFINE kept == Max({released_before_', capped_before_', front})
             B == ReleaseBase
             P == PreEventStart
  <2>1. /\ front \in Nat /\ front >= 1 /\ Last \in Nat /\ cfg.pre \in Nat
        /\ cfg.max \in Nat \ {0} /\ capped_before_ \in Nat
    BY <1>1, ReleasedTypes DEF QueueInv, TypeOK
  <2>2. kept \in Nat /\ capped_before_' <= kept /\ front <= kept
    BY <1>1, <2>1, MaxOfThree
  <2>3. /\ B \in front .. Last
        /\ Cardinality(ReleaseWindow) = VideoCount(front + 1, B)
        /\ VideoCount(front + 1, B) >= cfg.pre =>
             /\ P \in front .. B - 1
             /\ VideoCount(P + 1, B) = cfg.pre
    BY <1>1, ReleaseFacts DEF ReleaseDecoded
  <2>4. /\ ~Empty /\ B \in Int
    BY <2>1, <2>3 DEF Empty
  <2> HIDE DEF kept, B, P
  <2>5. ASSUME NEW a \in Int, a <= kept
        PROVE  /\ VideoCount(kept, Last) \in Nat /\ VideoCount(kept + 1, B) \in Nat
               /\ VideoCount(a, Last) \in Nat /\ VideoCount(a + 1, B) \in Nat
               /\ VideoCount(kept, Last) <= VideoCount(a, Last)
               /\ VideoCount(kept + 1, B) <= VideoCount(a + 1, B)
    <3>1. /\ kept \in Int /\ kept + 1 \in Int /\ a + 1 \in Int /\ Last \in Int
          /\ a + 1 <= kept + 1 /\ Last <= Last /\ B <= B
      BY <2>1, <2>2, <2>4, <2>5
    <3>2. VideoCount(kept, Last) \in Nat /\ VideoCount(a, Last) \in Nat
      BY <3>1, VideoCountType
    <3>3. VideoCount(kept + 1, B) \in Nat /\ VideoCount(a + 1, B) \in Nat
      BY <3>1, <2>4, VideoCountType
    <3>4. VideoCount(kept, Last) <= VideoCount(a, Last)
      BY <3>1, <2>5, VideoCountMonotone
    <3>5. VideoCount(kept + 1, B) <= VideoCount(a + 1, B)
      BY <3>1, <2>4, VideoCountMonotone
    <3> QED
      BY <3>2, <3>3, <3>4, <3>5
  <2>6. CASE VideoCount(front + 1, B) < cfg.pre
    <3>1. VideoCount(kept + 1, B) <= cfg.pre
      BY <2>1, <2>2, <2>5, <2>6, SMTT(60)
    <3> QED
      BY <3>1 DEF kept, B
  <2>7. CASE ~(VideoCount(front + 1, B) < cfg.pre)
    <3> DEFINE newest == Video(front, Last)
               o == NthLast(newest, cfg.max)
    <3>1. /\ VideoCount(front + 1, B) \in Nat /\ VideoCount(front, Last) \in Nat
      BY <2>1, <2>2, <2>5
    <3>2. P \in front .. B - 1 /\ VideoCount(P + 1, B) = cfg.pre
      BY <2>1, <2>3, <2>7, <3>1
    <3>3. capped_before_' = Max({capped_before_, CapBoundary})
      BY <1>1, <2>3, <2>4, <2>7 DEF ReleaseDecoded
    <3>4. CASE VideoCount(front, Last) < cfg.max
      <4>1. VideoCount(kept, Last) <= cfg.max
        BY <2>1, <2>2, <2>5, <3>4
      <4> QED
        BY <4>1 DEF kept
    <3>5. CASE VideoCount(front, Last) >= cfg.max
      <4>1. CapBoundary = IF o < P THEN o ELSE P
        BY <1>1, <3>5, Zenon DEF CapBoundary, VideoCount, P
      <4>2. o \in Nat /\ VideoCount(o, Last) = cfg.max
        <5> DEFINE low == front - 1
        <5>1. low \in Nat /\ low + 1 = front
          BY <2>1
        <5> HIDE DEF low
        <5>2. VideoCount(low + 1, Last) >= cfg.max
          BY <3>5, <5>1
        <5>3. o = NthLast(Video(low + 1, Last), cfg.max)
          BY <5>1
        <5> HIDE DEF o
        <5>4. cfg.max \in Nat \ {0} /\ Last \in Nat
          BY <2>1
        <5> QED
          BY <5>1, <5>2, <5>3, <5>4, WindowStart
      <4> HIDE DEF o, newest
      <4>3. CapBoundary \in Nat /\ P \in Nat
        BY <2>1, <2>4, <3>2, <4>1, <4>2
      <4>4. CapBoundary <= kept
        <5>1. CapBoundary <= capped_before_'
          BY <2>1, <3>3, <4>3, MaxOfTwo
        <5> QED
          BY <1>1, <2>2, <4>3, <5>1
      <4>5. CASE o < P
        <5>1. VideoCount(kept, Last) <= cfg.max
          BY <2>1, <2>5, <4>1, <4>2, <4>4, <4>5
        <5> QED
          BY <5>1 DEF kept
      <4>6. CASE ~(o < P)
        <5>1. VideoCount(kept + 1, B) <= cfg.pre
          BY <2>1, <2>5, <3>2, <4>1, <4>3, <4>4, <4>6
        <5> QED
          BY <5>1 DEF kept, B
      <4> QED
        BY <4>5, <4>6
    <3> QED
      BY <3>1, <3>4, <3>5, <2>1
  <2> QED
    <3>1. VideoCount(front + 1, B) \in Nat
      BY <2>1, <2>2, <2>5
    <3> QED
      BY <2>6, <2>7
<1>2. ASSUME QueueInv, [Next]_vars
      PROVE  [ReleaseDecoded /\ cfg.keep /\ cfg.max > 0 /\ ~deleting =>
                LET kept == Max({released_before_', capped_before_', front}) IN
                \/ VideoCount(kept, Last) <= cfg.max
                \/ VideoCount(kept + 1, ReleaseBase) <= cfg.pre]_vars
  <2>1. released_before_' \in Nat /\ capped_before_' \in Nat
    BY <1>2, NextInv DEF QueueInv, TypeOK
  <2> QED
    BY <1>1, <1>2, <2>1
<1> QED
  BY <1>2, QueueInvariant, PTL DEF Spec, DecodedDataBounded

-----------------------------------------------------------------------------
(* Keyframe intervals longer than the queue may be *)

KeysOf(p, a, b) == {i \in a .. b : p[i] = "key"}

\* frames_since_last_keyframe_ counts from the last keyframe in the queue.
SinceKeyframe ==
  \A k \in Keys(front, Last) : Keys(k + 1, Last) = {} => gop.since = VideoCount(k + 1, Last)

IntervalInv == SinceKeyframe /\ OverLimitIsOneInterval

\* An empty queue is not over its limit and has no keyframe.
LEMMA IntervalEmpty ==
  ASSUME QueueInv', Empty'
  PROVE  IntervalInv'
<1>1. front' \in Nat /\ Last' \in Nat /\ front' > Last'
  BY DEF QueueInv, TypeOK, Last, Empty
<1>2. Keys(front, Last)' = {}
  BY <1>1 DEF Keys
<1>3. packet_counts'.video = 0
  <2>1. packet_counts'.video = VideoCount(front, Last)'
    BY DEF QueueInv, CountsExact
  <2>2. Video(front, Last)' = {}
    BY <1>1 DEF Video
  <2>3. VideoCount(front, Last)' = Cardinality(Video(front, Last)')
    BY DEF VideoCount
  <2> QED
    BY <2>1, <2>2, <2>3, FS_EmptySet
<1>4. cfg.max' \in Nat
  BY DEF QueueInv, TypeOK
<1>5. SinceKeyframe'
  BY <1>2 DEF SinceKeyframe
<1>6. OverLimitIsOneInterval'
  BY <1>3, <1>4 DEF OverLimitIsOneInterval
<1> QED
  BY <1>5, <1>6 DEF IntervalInv

\* Steps that queue and remove nothing
LEMMA IntervalQuiet ==
  ASSUME IntervalInv, UNCHANGED <<pkts, front, packet_counts, cfg, gop>>
  PROVE  IntervalInv'
<1>1. SinceKeyframe'
  BY DEF IntervalInv, SinceKeyframe, Keys, IsKey, VideoCount, Video, IsVideo, Last
<1>2. OverLimitIsOneInterval'
  BY DEF IntervalInv, OverLimitIsOneInterval, Keys, IsKey, Video, IsVideo, Last
<1> QED
  BY <1>1, <1>2 DEF IntervalInv

\* clearPackets leaves the last keyframe interval whole.
LEMMA IntervalClear ==
  ASSUME QueueInv, QueueInv', IntervalInv, ClearPackets
  PROVE  IntervalInv'
<1>1. /\ UNCHANGED <<pkts, cfg>> /\ gop'.since = gop.since /\ gop'.over = gop.over
      /\ step = "clear"
  <2>1. gop' = gop \/ \E m \in {Max({gop.max} \cup IntervalsSeen(Analysed))} :
                        gop' = [gop EXCEPT !.max = m]
    BY DEF ClearPackets
  <2>2. gop \in [since: Nat, max: Nat, over: BOOLEAN]
    BY DEF QueueInv, TypeOK
  <2>3. gop'.since = gop.since /\ gop'.over = gop.over
    BY <2>1, <2>2
  <2> QED
    BY <2>3 DEF ClearPackets
<1>2. Last' = Last /\ front \in Nat /\ Last \in Nat
  BY <1>1, ReleasedTypes DEF Last
<1>3. /\ front' \in Nat /\ front <= front'
      /\ \/ front' = front
         \/ /\ front' \in front + 1 .. Last
            /\ \/ ~cfg.keep /\ front' = TrimmedFront(Analysed)
               \/ cfg.keep /\ front' = NextFront(Analysed)
  BY ClearMovesOn
<1>6. PICK f \in Nat : f = front' /\ front <= f
  BY <1>3
<1>4. SinceKeyframe'
  <2>1. ASSUME NEW k \in Keys(front, Last)', Keys(k + 1, Last)' = {}
        PROVE  gop'.since = VideoCount(k + 1, Last)'
    <3>1. k \in Keys(front, Last)
      BY <2>1, <1>1, <1>2, <1>3 DEF Keys, IsKey
    <3>2. Keys(k + 1, Last) = {}
      BY <2>1, <1>1, <1>2 DEF Keys, IsKey
    <3>3. gop.since = VideoCount(k + 1, Last)
      BY <3>1, <3>2 DEF IntervalInv, SinceKeyframe
    <3>4. VideoCount(k + 1, Last)' = VideoCount(k + 1, Last)
      BY <1>1, <1>2 DEF VideoCount, Video, IsVideo
    <3> QED
      BY <1>1, <3>3, <3>4
  <2> QED
    BY <2>1 DEF SinceKeyframe
<1>5. OverLimitIsOneInterval'
  <2> SUFFICES ASSUME cfg'.keep, cfg'.max > 0, packet_counts'.video > cfg'.max
               PROVE  /\ \A k \in Keys(front + 1, Last)' : Video(k + 1, Last)' = {}
                      /\ Keys(front + 1, Last)' = {} => gop'.over
    BY DEF OverLimitIsOneInterval
  <2>1. cfg.max \in Nat /\ cfg.keep /\ cfg.max > 0
    BY <1>1 DEF QueueInv, TypeOK
  <2>2. packet_counts'.video = VideoCount(front', Last)
    <3>1. packet_counts'.video = VideoCount(front, Last)'
      BY DEF QueueInv, CountsExact
    <3>2. VideoCount(front, Last)' = VideoCount(front', Last)
      BY <1>1, <1>2 DEF VideoCount, Video, IsVideo
    <3> QED
      BY <3>1, <3>2
  <2>3. packet_counts.video = VideoCount(front, Last)
    BY DEF QueueInv, CountsExact
  <2>4. VideoCount(front', Last) <= VideoCount(front, Last)
    BY <1>2, <1>3, VideoCountMonotone
  <2>5. VideoCount(front', Last) \in Nat /\ VideoCount(front, Last) \in Nat
    <3>1. front' \in Int /\ front \in Int /\ Last \in Int
      BY <1>2, <1>3
    <3> QED
      BY <3>1, VideoCountType
  <2>6. packet_counts.video > cfg.max
    BY <1>1, <2>1, <2>2, <2>3, <2>4, <2>5
  <2>7. /\ \A k \in Keys(front + 1, Last) : Video(k + 1, Last) = {}
        /\ Keys(front + 1, Last) = {} => gop.over
    BY <2>1, <2>6 DEF IntervalInv, OverLimitIsOneInterval
  <2>8. ASSUME NEW k \in Keys(front + 1, Last)' PROVE Video(k + 1, Last)' = {}
    <3>1. k \in Keys(front + 1, Last)
      BY <2>8, <1>1, <1>2, <1>6 DEF Keys, IsKey
    <3>2. Video(k + 1, Last)' = Video(k + 1, Last)
      BY <1>1, <1>2 DEF Video, IsVideo
    <3> QED
      BY <2>7, <3>1, <3>2
  <2>9. front' = front
    <3>1. SUFFICES ASSUME front' # front PROVE FALSE
      OBVIOUS
    <3>2. f \in front + 1 .. Last /\ IsKey(f)
      BY <1>1, <1>3, <1>6, <2>1, <3>1, NextFrontProperty
    <3>3. f \in Keys(front + 1, Last)
      BY <3>2 DEF Keys
    <3>4. Video(f + 1, Last) = {}
      BY <2>7, <3>3
    <3>5. VideoCount(f + 1, Last) = 0
      BY <3>4, FS_EmptySet DEF VideoCount
    <3>6. VideoCount(f, Last) = VideoCount(f, (f + 1) - 1) + VideoCount(f + 1, Last)
      <4>1. f \in Int /\ Last \in Int /\ f + 1 \in Int /\ f <= f + 1 /\ f + 1 <= Last + 1
        BY <1>2, <3>2
      <4> QED
        BY <4>1, VideoCountSplit
    <3>7. VideoCount(f, f) \in Nat /\ VideoCount(f, f) <= 1
      <4>1. f \in Int
        OBVIOUS
      <4> QED
        BY <4>1, VideoCountOne
    <3>8. (f + 1) - 1 = f
      OBVIOUS
    <3> QED
      BY <1>1, <1>6, <2>1, <2>2, <3>5, <3>6, <3>7, <3>8
  <2>10. Keys(front + 1, Last)' = {} => gop'.over
    BY <1>1, <1>2, <2>7, <2>9 DEF Keys, IsKey
  <2> QED
    BY <2>8, <2>10
<1> QED
  BY <1>4, <1>5 DEF IntervalInv

\* queuePacket counts on from the last keyframe.
LEMMA SinceQueue ==
  ASSUME QueueInv, SinceKeyframe, NEW kind \in {"key", "delta", "audio"}, QueuePacket(kind),
         NEW f \in Nat, f = front', front <= f, f <= Last + 1,
         NEW k \in KeysOf(pkts', f, Last + 1), KeysOf(pkts', k + 1, Last + 1) = {}
  PROVE  /\ gop'.since = Cardinality(VideoOf(pkts', k + 1, Last + 1))
         /\ kind = "key" => gop'.since = 0
         /\ kind = "delta" /\ cfg.keep /\ cfg.max > 0 /\ gop'.since + 1 > cfg.max => gop'.over
         /\ kind = "audio" => gop' = gop
<1> DEFINE L == Last + 1
<1>1. /\ pkts \in Seq({"key", "delta", "audio"}) /\ Last = Len(pkts) /\ Last \in Nat
      /\ front \in Nat /\ front >= 1 /\ gop \in [since: Nat, max: Nat, over: BOOLEAN]
      /\ cfg \in [pre: Nat \ {0}, max: Nat, keep: BOOLEAN]
  BY DEF QueueInv, TypeOK, Last
<1>2. pkts'[L] = kind /\ \A j \in 1 .. Last : pkts'[j] = pkts[j]
  BY QueuePacketMoves
<1>3. pkts' = Append(pkts, kind) /\ gop' = GopAfter(kind)
  BY DEF QueuePacket
<1>4. k \in Nat /\ f <= k /\ k <= L /\ pkts'[k] = "key" /\ k >= 1
  BY <1>1 DEF KeysOf
<1>5. CASE kind = "key"
  <2>1. k = L
    <3>1. SUFFICES ASSUME k # L PROVE FALSE
      OBVIOUS
    <3>2. L \in KeysOf(pkts', k + 1, L)
      BY <1>1, <1>2, <1>4, <1>5, <3>1 DEF KeysOf
    <3> QED
      BY <3>2
  <2>2. VideoOf(pkts', k + 1, L) = {}
    BY <1>1, <2>1 DEF VideoOf
  <2>3. gop' = [gop EXCEPT !.since = 0, !.max = IF @ = 0 THEN 1 ELSE @]
    BY <1>3, <1>5 DEF GopAfter
  <2>4. gop'.since = 0
    BY <1>1, <2>3
  <2> QED
    BY <1>5, <2>2, <2>4, FS_EmptySet
<1>6. CASE kind # "key"
  <2>1. k # L
    BY <1>2, <1>4, <1>6
  <2>2. k \in Keys(front, Last) /\ k \in 1 .. Last
    BY <1>1, <1>2, <1>4, <2>1 DEF Keys, IsKey
  <2>3. Keys(k + 1, Last) = {}
    BY <1>1, <1>2, <1>4, <2>2 DEF Keys, IsKey, KeysOf
  <2>4. gop.since = VideoCount(k + 1, Last)
    BY <2>2, <2>3 DEF SinceKeyframe
  <2>5. Cardinality(VideoOf(pkts', k + 1, L))
          = VideoCount(k + 1, Last) + (IF kind = "audio" THEN 0 ELSE 1)
    <3> DEFINE a == k + 1
    <3>1. a \in 1 .. Len(pkts) + 1
      BY <1>1, <2>2
    <3> HIDE DEF a
    <3>2. Cardinality(VideoOf(Append(pkts, kind), a, Len(pkts) + 1))
            = Cardinality(VideoOf(pkts, a, Len(pkts))) + (IF kind = "audio" THEN 0 ELSE 1)
      BY <1>1, <3>1, CountAppend
    <3>3. VideoCount(a, Last) = Cardinality(VideoOf(pkts, a, Len(pkts)))
      BY <1>1, CountsAreCounts
    <3> QED
      BY <1>1, <1>3, <3>2, <3>3 DEF a
  <2>6. CASE kind = "audio"
    <3>1. gop' = gop
      BY <1>3, <2>6 DEF GopAfter
    <3> QED
      BY <1>1, <2>4, <2>5, <2>6, <3>1
  <2>7. CASE kind = "delta"
    <3>1. gop' = [since |-> gop.since + 1,
                  max   |-> IF gop.since + 1 > gop.max THEN gop.since + 1 ELSE gop.max,
                  over  |-> gop.over \/ (cfg.keep /\ cfg.max > 0 /\ gop.since + 1 + 1 > cfg.max)]
      BY <1>3, <2>7 DEF GopAfter
    <3>2. /\ gop'.since = gop.since + 1
          /\ gop'.over = (gop.over \/ (cfg.keep /\ cfg.max > 0 /\ gop.since + 1 + 1 > cfg.max))
      BY <3>1
    <3> QED
      BY <1>1, <2>4, <2>5, <2>7, <3>2
  <2> QED
    BY <1>6, <2>6, <2>7
<1> QED
  BY <1>5, <1>6

\* The step leaves its front at f.
MovedTo(f) == front' = f

\* What queuePacket leaves of a passthrough queue that is over its limit.
LEMMA OverQueue ==
  ASSUME QueueInv, QueueInv', IntervalInv, NEW kind \in {"key", "delta", "audio"},
         QueuePacket(kind), NEW f \in Nat, MovedTo(f), front <= f, f <= Last + 1,
         cfg.keep, cfg.max > 0, packet_counts'.video > cfg.max
  PROVE  /\ \A k \in KeysOf(pkts', f + 1, Last + 1) : VideoOf(pkts', k + 1, Last + 1) = {}
         /\ KeysOf(pkts', f + 1, Last + 1) = {} => gop'.over
<1> DEFINE L == Last + 1
           one == IF kind = "audio" THEN 0 ELSE 1
<1>1. /\ pkts \in Seq({"key", "delta", "audio"}) /\ Last = Len(pkts) /\ Last \in Nat
      /\ front \in Nat /\ front >= 1 /\ gop \in [since: Nat, max: Nat, over: BOOLEAN]
      /\ cfg.max \in Nat
  BY DEF QueueInv, TypeOK, Last
<1>2. Last' = L /\ pkts'[L] = kind /\ \A j \in 1 .. Last : pkts'[j] = pkts[j]
  BY QueuePacketMoves
<1>3. pkts' = Append(pkts, kind)
  BY DEF QueuePacket
<1>4. packet_counts'.video = Cardinality(VideoOf(pkts', f, L))
  <2>1. packet_counts'.video = VideoCount(front, Last)'
    BY DEF QueueInv, CountsExact
  <2>2. VideoCount(front, Last)' = Cardinality(VideoOf(pkts', f, L))
    BY <1>2 DEF VideoCount, Video, IsVideo, VideoOf, MovedTo
  <2> QED
    BY <2>1, <2>2
<1>5. packet_counts'.video = VideoCount(f, Last) + one
  <2>1. f \in 1 .. Len(pkts) + 1
    BY <1>1
  <2>2. Cardinality(VideoOf(Append(pkts, kind), f, Len(pkts) + 1))
          = Cardinality(VideoOf(pkts, f, Len(pkts))) + one
    BY <1>1, <2>1, CountAppend
  <2>3. VideoCount(f, Last) = Cardinality(VideoOf(pkts, f, Len(pkts)))
    BY <1>1, CountsAreCounts
  <2> QED
    BY <1>1, <1>3, <1>4, <2>2, <2>3
<1>6. packet_counts.video = VideoCount(front, Last)
  BY DEF QueueInv, CountsExact
<1>7. ASSUME NEW k \in KeysOf(pkts', f + 1, L) PROVE VideoOf(pkts', k + 1, L) = {}
  <2>1. k \in Nat /\ f + 1 <= k /\ k <= L /\ pkts'[k] = "key"
    BY <1>1, <1>7 DEF KeysOf
  <2>2. CASE k = L
    BY <1>1, <2>2 DEF VideoOf
  <2>3. CASE k # L
    <3>1. k \in 1 .. Last /\ IsKey(k) /\ k \in Keys(front + 1, Last)
      BY <1>1, <1>2, <2>1, <2>3 DEF Keys, IsKey
    <3>2. CASE kind = "audio"
      <4>1. f = front
        BY <3>2 DEF QueuePacket, MovedTo
      <4>2. packet_counts.video > cfg.max
        <5>1. front \in Int /\ Last \in Int
          BY <1>1
        <5>2. VideoCount(front, Last) \in Nat
          BY <5>1, VideoCountType
        <5> QED
          BY <1>5, <1>6, <3>2, <4>1, <5>2
      <4>3. Video(k + 1, Last) = {}
        BY <3>1, <4>2 DEF IntervalInv, OverLimitIsOneInterval
      <4> QED
        BY <1>1, <1>2, <2>1, <3>2, <4>3 DEF Video, IsVideo, VideoOf
    <3>3. CASE kind # "audio"
      <4> DEFINE counts == [packet_counts EXCEPT !.video = @ + 1]
                 K == Keys(front + 1, Last)
      <4>1. f = OverflowFront(counts) /\ counts.video = packet_counts.video + 1
        BY <3>3 DEF QueuePacket, QueueInv, TypeOK, MovedTo
      <4> HIDE DEF counts
      <4>2. /\ VideoCount(front, Last) \in Nat /\ VideoCount(f, Last) \in Nat
        <5>1. front \in Int /\ Last \in Int /\ f \in Int
          BY <1>1
        <5> QED
          BY <5>1, VideoCountType
      <4>3. f # front
        <5>1. SUFFICES ASSUME f = front PROVE FALSE
          OBVIOUS
        <5>2. counts.video > cfg.max
          BY <1>1, <1>5, <1>6, <3>3, <4>1, <4>2, <5>1
        <5>3. f = Min(K)
          BY <3>1, <4>1, <5>2 DEF OverflowFront
        <5>4. K \subseteq Nat /\ K # {} /\ front \notin K
          BY <1>1, <3>1 DEF Keys
        <5>5. Min(K) \in K
          <6> HIDE DEF K
          <6> QED
            BY <5>4, MinProperty
        <5> QED
          BY <5>1, <5>3, <5>4, <5>5
      <4>4. f \in front + 1 .. Last /\ IsKey(f)
        BY <4>1, <4>3, OverflowFrontProperty DEF QueueInv
      <4>5. VideoCount(front, Last) = VideoCount(front, f - 1) + VideoCount(f, Last)
        BY <1>1, <4>4, VideoCountSplit
      <4>6. VideoCount(front, f - 1) >= 1
        <5>1. IsKey(front)
          BY <1>1, <4>4 DEF QueueInv, FrontIsKeyframe, Empty
        <5>2. IsVideo(front)
          BY <5>1 DEF IsKey, IsVideo
        <5>3. VideoCount(front, front) = 1
          BY <1>1, <5>2, VideoCountOne
        <5>4. VideoCount(front, front) <= VideoCount(front, f - 1)
          BY <1>1, <4>4, VideoCountMonotone
        <5> QED
          BY <5>3, <5>4
      <4>7. VideoCount(front, f - 1) \in Nat
        <5>1. front \in Int /\ f - 1 \in Int
          BY <1>1
        <5> QED
          BY <5>1, VideoCountType
      <4>8. packet_counts.video > cfg.max
        BY <1>1, <1>5, <1>6, <3>3, <4>2, <4>5, <4>6, <4>7
      <4>9. f \in Keys(front + 1, Last)
        BY <4>4 DEF Keys
      <4>10. Video(f + 1, Last) = {}
        BY <4>8, <4>9 DEF IntervalInv, OverLimitIsOneInterval
      <4>11. k \in Video(f + 1, Last)
        BY <1>1, <2>1, <3>1 DEF Video, IsVideo, IsKey
      <4> QED
        BY <4>10, <4>11
    <3> QED
      BY <3>2, <3>3
  <2> QED
    BY <2>2, <2>3
<1>8. ASSUME KeysOf(pkts', f + 1, L) = {} PROVE gop'.over
  <2>1. pkts'[f] = "key"
    <3>1. ~Empty'
      BY <1>1, <1>2 DEF Empty, MovedTo
    <3>2. cfg' = cfg
      BY DEF QueuePacket
    <3> QED
      BY <3>1, <3>2 DEF QueueInv, FrontIsKeyframe, IsKey, MovedTo
  <2>2. f \in KeysOf(pkts', f, L)
    BY <1>1, <2>1 DEF KeysOf
  <2>3. SinceKeyframe
    BY DEF IntervalInv
  <2>4. /\ gop'.since = Cardinality(VideoOf(pkts', f + 1, L))
        /\ kind = "key" => gop'.since = 0
        /\ kind = "delta" /\ cfg.keep /\ cfg.max > 0 /\ gop'.since + 1 > cfg.max => gop'.over
        /\ kind = "audio" => gop' = gop
    BY <1>8, <2>2, <2>3, SinceQueue DEF MovedTo
  <2>5. Cardinality(VideoOf(pkts', f, L)) = 1 + Cardinality(VideoOf(pkts', f + 1, L))
    <3>1. f \in Int /\ L \in Int /\ f + 1 \in Int /\ f <= f + 1 /\ f + 1 <= L + 1
            /\ (f + 1) - 1 = f
      BY <1>1
    <3>2. Cardinality(VideoOf(pkts', f, L))
            = Cardinality(VideoOf(pkts', f, (f + 1) - 1)) + Cardinality(VideoOf(pkts', f + 1, L))
      BY <3>1, CountSplit
    <3>3. VideoOf(pkts', f, f) = {f}
      BY <2>1 DEF VideoOf
    <3>4. Cardinality(VideoOf(pkts', f, f)) = 1
      BY <3>3, FS_Singleton
    <3> QED
      BY <3>1, <3>2, <3>4
  <2>6. Cardinality(VideoOf(pkts', f + 1, L)) \in Nat
    <3>1. f + 1 \in Int /\ L \in Int
      BY <1>1
    <3> QED
      BY <3>1, CountType
  <2>7. packet_counts'.video = gop'.since + 1 /\ gop'.since \in Nat
    BY <1>4, <2>4, <2>5, <2>6
  <2>8. CASE kind = "key"
    BY <1>1, <2>4, <2>7, <2>8
  <2>9. CASE kind = "delta"
    BY <1>1, <2>4, <2>7, <2>9
  <2>10. CASE kind = "audio"
    <3>1. f = front
      BY <2>10 DEF QueuePacket, MovedTo
    <3>2. Keys(front + 1, Last) = {}
      BY <1>1, <1>2, <1>8, <3>1 DEF Keys, IsKey, KeysOf
    <3>3. packet_counts.video > cfg.max
      <4>1. front \in Int /\ Last \in Int
        BY <1>1
      <4>2. VideoCount(front, Last) \in Nat
        BY <4>1, VideoCountType
      <4> QED
        BY <1>5, <1>6, <2>10, <3>1, <4>2
    <3>4. gop.over
      BY <3>2, <3>3 DEF IntervalInv, OverLimitIsOneInterval
    <3> QED
      BY <2>4, <2>10, <3>4
  <2> QED
    BY <2>8, <2>9, <2>10
<1> QED
  BY <1>7, <1>8

\* Queueing a packet keeps the count since the last keyframe and the one interval.
LEMMA IntervalQueue ==
  ASSUME QueueInv, QueueInv', IntervalInv, NEW kind \in {"key", "delta", "audio"},
         QueuePacket(kind)
  PROVE  IntervalInv'
<1>1. Last' = Last + 1 /\ front' \in Nat /\ front <= front' /\ front' <= Last + 1
  BY QueuePacketMoves
<1>2. PICK f \in Nat : f = front' /\ front <= f /\ f <= Last + 1
  BY <1>1
<1>3. cfg' = cfg
  BY DEF QueuePacket
<1>4. SinceKeyframe'
  <2>1. ASSUME NEW k \in KeysOf(pkts', f, Last + 1), KeysOf(pkts', k + 1, Last + 1) = {}
        PROVE  gop'.since = Cardinality(VideoOf(pkts', k + 1, Last + 1))
    BY <1>2, <2>1, SinceQueue DEF IntervalInv
  <2> QED
    BY <1>1, <1>2, <2>1 DEF SinceKeyframe, Keys, IsKey, KeysOf, VideoCount, Video, IsVideo, VideoOf
<1>5. OverLimitIsOneInterval'
  <2> SUFFICES ASSUME cfg'.keep, cfg'.max > 0, packet_counts'.video > cfg'.max
               PROVE  /\ \A k \in Keys(front + 1, Last)' : Video(k + 1, Last)' = {}
                      /\ Keys(front + 1, Last)' = {} => gop'.over
    BY DEF OverLimitIsOneInterval
  <2>1. /\ \A k \in KeysOf(pkts', f + 1, Last + 1) : VideoOf(pkts', k + 1, Last + 1) = {}
        /\ KeysOf(pkts', f + 1, Last + 1) = {} => gop'.over
    BY <1>2, <1>3, OverQueue DEF MovedTo
  <2> QED
    BY <1>1, <1>2, <2>1 DEF Keys, IsKey, KeysOf, Video, IsVideo, VideoOf
<1> QED
  BY <1>4, <1>5 DEF IntervalInv

\* Every step of every thread keeps it.
LEMMA IntervalNext == QueueInv /\ IntervalInv /\ [Next]_vars => IntervalInv'
<1> SUFFICES ASSUME QueueInv, IntervalInv, [Next]_vars PROVE IntervalInv'
  OBVIOUS
<1> QueueInv'
  BY NextInv
<1> USE DEF queueVars
<1>1. CASE \/ \E s \in Settings : Reload(s)
           \/ \E n \in Cameras : PrimeCapture(n)
  <2>1. streams = 0 /\ UNCHANGED <<pkts, front>>
    BY <1>1 DEF Reload, PrimeCapture
  <2>2. Empty'
    BY <2>1 DEF QueueInv, ThreadsCoherent, Empty, Last
  <2> QED
    BY <2>2, IntervalEmpty
<1>2. CASE \E kind \in {"key", "delta", "audio"} : QueuePacket(kind)
  BY <1>2, IntervalQueue
<1>3. CASE Clear \/ StaleSnapshot
  <2>1. front' = Last + 1 /\ pkts' = pkts
    BY <1>3 DEF Clear, StaleSnapshot
  <2>2. Empty'
    BY <2>1, ReleasedTypes DEF Empty, Last
  <2> QED
    BY <2>2, IntervalEmpty
<1>4. CASE ClearPackets
  BY <1>4, IntervalClear
<1>5. CASE \/ Stop \/ PauseClosesEvent \/ AnalyseGet \/ AnalyseRetry \/ CloseEvent \/ NoEventWork
           \/ ReadAnalysisIt \/ \E e \in Events : \E n \in {0, cfg.pre} : GetEventStart(e, n)
           \/ StartEvent \/ NoStartingPacket \/ ReleaseDecoded \/ AnalyseIncrement \/ Reader
           \/ UNCHANGED vars
  <2>1. UNCHANGED <<pkts, front, packet_counts, cfg, gop>>
    BY <1>5 DEF Stop, PauseClosesEvent, AnalyseGet, AnalyseRetry, CloseEvent, NoEventWork,
       ReadAnalysisIt, GetEventStart, StartEvent, NoStartingPacket, ReleaseDecoded,
       AnalyseIncrement, Reader, ReaderGet, ReaderIncrement, ReaderRetry, FreeIt, vars
  <2> QED
    BY <2>1, IntervalQuiet
<1> QED
  BY <1>1, <1>2, <1>3, <1>4, <1>5 DEF Next, Capture, Analysis

\* A passthrough queue above MaxImageBufferCount holds one keyframe interval
\* that cannot be trimmed, apart from a keyframe that just arrived, and the
\* warning about such intervals has been given.
THEOREM OverLimitAlwaysOneInterval == Spec => []OverLimitIsOneInterval
<1>1. Init => QueueInv /\ IntervalInv
  <2> SUFFICES ASSUME Init PROVE IntervalInv
    BY InitInv
  <2>1. front = 1 /\ Last = 0 /\ packet_counts.video = 0
    BY DEF Init, Last
  <2>2. Keys(front, Last) = {}
    BY <2>1 DEF Keys
  <2>3. SinceKeyframe
    BY <2>2 DEF SinceKeyframe
  <2>4. cfg.max \in Nat
    BY InitInv DEF QueueInv, TypeOK
  <2>5. OverLimitIsOneInterval
    BY <2>1, <2>4 DEF OverLimitIsOneInterval
  <2> QED
    BY <2>3, <2>5 DEF IntervalInv
<1>2. QueueInv /\ IntervalInv /\ [Next]_vars => (QueueInv /\ IntervalInv)'
  BY NextInv, IntervalNext
<1>3. QueueInv /\ IntervalInv => OverLimitIsOneInterval
  BY DEF IntervalInv
<1> QED
  BY <1>1, <1>2, <1>3, PTL DEF Spec
=============================================================================
