-------------------------- MODULE VectorIndexProofs --------------------------
(***************************************************************************)
(* What is proved of the windows of _get_frames, of the collection and of  *)
(* what scroll_video answers, for any videos, keyframes, folders, windows  *)
(* and number of setup calls.                                              *)
(***************************************************************************)
EXTENDS VectorIndex, FiniteSetTheorems, WellFoundedInduction, TLAPS

\* A set of frame numbers that is not empty has a least one.
LEMMA LeastIs ==
  ASSUME NEW S \in SUBSET Nat, S # {}
  PROVE  Least(S) \in S /\ \A m \in S : Least(S) <= m
<1>1. PICK x \in S : \A y \in S : ~(<<y, x>> \in OpToRel(<, Nat))
  BY NatLessThanWellFounded, WFMin
<1>2. \A y \in S : x <= y
  <2> SUFFICES ASSUME NEW y \in S PROVE x <= y
    OBVIOUS
  <2>1. x \in Nat /\ y \in Nat
    OBVIOUS
  <2>2. <<y, x>> \in Nat \X Nat
    BY <2>1
  <2>3. ~(y < x)
    BY <1>1, <2>2, ZenonT(30) DEF OpToRel
  <2> QED
    BY <2>1, <2>3
<1> QED
  BY <1>2 DEF Least

\* A set of frame numbers that is bounded and not empty has a greatest one: the
\* one whose distance to the bound is least.
LEMMA GreatestIs ==
  ASSUME NEW N \in Nat, NEW S \in SUBSET (0..N), S # {}
  PROVE  Greatest(S) \in S /\ \A m \in S : m <= Greatest(S)
<1> DEFINE D == {N - n : n \in S}
<1>0. \A n \in S : n \in Int /\ 0 <= n /\ n <= N
  OBVIOUS
<1>1. D \in SUBSET Nat /\ D # {}
  <2>1. \A n \in S : N - n \in Nat
    BY <1>0
  <2> QED
    BY <2>1
<1>2. Least(D) \in D /\ \A d \in D : Least(D) <= d
  BY <1>1, LeastIs
<1>3. PICK n \in S : Least(D) = N - n
  BY <1>2
<1>4. \A m \in S : m <= n
  <2> SUFFICES ASSUME NEW m \in S PROVE m <= n
    OBVIOUS
  <2>1. N - m \in D
    OBVIOUS
  <2>2. N - n <= N - m
    BY <1>2, <1>3, <2>1
  <2> QED
    BY <1>0, <2>2
<1> QED
  BY <1>4 DEF Greatest

-----------------------------------------------------------------------------
(***************************************************************************)
(* Windows.  F is the set of keyframes of one video.                       *)
(***************************************************************************)
\* The keyframe a window starts at: no keyframe of the window is before it, and
\* it is in the window's reach unless it is the video's last one.
LEMMA StartIs ==
  ASSUME NEW N \in Nat, NEW F \in SUBSET (0..N), F # {},
         NoFrame \notin Int, NEW first \in Nat \cup {NoFrame}
  PROVE  /\ Start(F, first) \in F
         /\ \A n \in F : From(first) <= n => Start(F, first) <= n
         /\ Start(F, first) < From(first) => \A n \in F : n <= Start(F, first)
<1>0. F \in SUBSET Nat /\ \A n \in F : n \in Int
  OBVIOUS
<1>1. Greatest(F) \in F /\ \A m \in F : m <= Greatest(F)
  BY GreatestIs
<1>2. CASE first = NoFrame
  BY <1>0, <1>2, LeastIs DEF Start, From
<1>3. CASE first \in Nat
  <2> DEFINE T == {n \in F : n >= first} \cup {Greatest(F)}
  <2>1. T \in SUBSET Nat /\ T # {} /\ T \subseteq F
    BY <1>0, <1>1
  <2>2. Least(T) \in T /\ \A m \in T : Least(T) <= m
    BY <2>1, LeastIs
  <2>3. first # NoFrame /\ Start(F, first) = Least(T) /\ From(first) = first
    BY <1>3 DEF Start, From
  <2> HIDE DEF T
  <2>4. \A n \in F : first <= n => n \in T
    BY <1>0, <1>3 DEF T
  <2>5. Least(T) < first => Least(T) = Greatest(F)
    <3>1. Least(T) \in F /\ (Least(T) >= first \/ Least(T) = Greatest(F))
      BY <2>1, <2>2 DEF T
    <3>2. Least(T) \in Int
      BY <1>0, <2>1, <2>2
    <3>3. CASE Least(T) >= first
      BY <1>3, <3>2, <3>3
    <3> QED
      BY <3>1, <3>3
  <2> QED
    BY <1>1, <2>1, <2>2, <2>3, <2>4, <2>5
<1> QED
  BY <1>2, <1>3

\* The keyframe a window ends at: no keyframe of the window is after it, and the
\* keyframes before it are not after the window.
LEMMA EndIs ==
  ASSUME NEW N \in Nat, NEW F \in SUBSET (0..N), F # {},
         NoFrame \notin Int, NEW last \in Nat \cup {NoFrame}
  PROVE  /\ End(F, last) \in F
         /\ \A n \in F : (last = NoFrame \/ n <= last) => n <= End(F, last)
         /\ \A n \in F : n < End(F, last) => (last = NoFrame \/ n <= last)
<1>0. F \in SUBSET Nat /\ \A n \in F : n \in Int
  OBVIOUS
<1>1. Greatest(F) \in F /\ \A m \in F : m <= Greatest(F)
  BY GreatestIs
<1>2. CASE last = NoFrame
  BY <1>1, <1>2 DEF End
<1>3. CASE last \in F
  <2>1. last # NoFrame /\ End(F, last) = last
    BY <1>3 DEF End
  <2> QED
    BY <1>0, <1>3, <2>1
<1>4. CASE last \in Nat /\ last \notin F
  <2> DEFINE T == {n \in F : n > last} \cup {Greatest(F)}
  <2>1. T \in SUBSET Nat /\ T # {} /\ T \subseteq F
    BY <1>0, <1>1
  <2>2. Least(T) \in T /\ \A m \in T : Least(T) <= m
    BY <2>1, LeastIs
  <2>3. last # NoFrame /\ End(F, last) = Least(T)
    BY <1>4 DEF End
  <2>4. \A n \in F : n > last => n \in T
    OBVIOUS
  <2>5. Least(T) > last \/ Least(T) = Greatest(F)
    BY <2>2
  <2> HIDE DEF T
  <2>0. Least(T) \in Int
    BY <1>0, <2>1, <2>2
  <2>6. \A n \in F : n <= last => n <= Least(T)
    <3>1. CASE Least(T) > last
      BY <1>0, <1>4, <2>0, <3>1
    <3>2. CASE Least(T) = Greatest(F)
      BY <1>1, <3>2
    <3> QED
      BY <2>5, <3>1, <3>2
  <2>7. \A n \in F : n < Least(T) => n <= last
    <3> SUFFICES ASSUME NEW n \in F, n < Least(T) PROVE n <= last
      OBVIOUS
    <3>0. n \in Int
      BY <1>0
    <3>1. n \notin T
      BY <2>0, <2>2, <3>0
    <3> QED
      BY <1>0, <1>4, <2>4, <3>1
  <2> QED
    BY <2>1, <2>2, <2>3, <2>6, <2>7
<1> QED
  BY <1>2, <1>3, <1>4

\* _get_frames returns every keyframe of the window it is asked for.
THEOREM WindowIsCovered ==
  ASSUME NEW N \in Nat, NEW F \in SUBSET (0..N), F # {}, NoFrame \notin Int,
         NEW first \in Nat \cup {NoFrame}, NEW last \in Nat \cup {NoFrame}
  PROVE  Within(F, first, last) \subseteq Hits(F, first, last)
<1>1. \A n \in F : From(first) <= n => Start(F, first) <= n
  BY StartIs
<1>2. \A n \in F : (last = NoFrame \/ n <= last) => n <= End(F, last)
  BY EndIs
<1> QED
  BY <1>1, <1>2 DEF Within, Hits

\* It returns at most one keyframe that is not in the window: the first one after
\* it or, when the window begins after the video's last keyframe, that one.
THEOREM WindowSpillsOnce ==
  ASSUME NEW N \in Nat, NEW F \in SUBSET (0..N), F # {}, NoFrame \notin Int,
         NEW first \in Nat \cup {NoFrame}, NEW last \in Nat \cup {NoFrame},
         NEW m \in Hits(F, first, last) \ Within(F, first, last),
         NEW n \in Hits(F, first, last) \ Within(F, first, last)
  PROVE  m = n
<1> DEFINE s == Start(F, first)
           e == End(F, last)
<1>0. m \in Int /\ n \in Int /\ s \in Int /\ e \in Int
  <2>1. s \in F /\ e \in F
    BY StartIs, EndIs
  <2>2. m \in F /\ n \in F
    BY DEF Hits
  <2>3. \A i \in F : i \in Int
    OBVIOUS
  <2> QED
    BY <2>1, <2>2, <2>3
<1>1. s \in F /\ (s < From(first) => \A i \in F : i <= s)
  BY StartIs
<1>2. e \in F /\ \A i \in F : i < e => (last = NoFrame \/ i <= last)
  BY EndIs
<1>3. From(first) \in Nat
  BY DEF From
<1>4. m \in F /\ n \in F /\ s <= m /\ m <= e /\ s <= n /\ n <= e
  BY DEF Hits
<1> HIDE DEF s, e
<1>5. CASE s < From(first)
  <2>1. m = s /\ n = s
    BY <1>0, <1>1, <1>4, <1>5
  <2> QED
    BY <2>1
<1>6. CASE ~(s < From(first))
  <2>1. From(first) <= m /\ From(first) <= n
    BY <1>0, <1>1, <1>3, <1>4, <1>6
  <2>2. ~(last = NoFrame \/ m <= last) /\ ~(last = NoFrame \/ n <= last)
    BY <1>4, <2>1 DEF Within
  <2>3. ~(m < e) /\ ~(n < e)
    BY <1>2, <1>4, <2>2
  <2> QED
    BY <1>0, <1>2, <1>4, <2>3
<1> QED
  BY <1>5, <1>6
-----------------------------------------------------------------------------
(***************************************************************************)
(* The collection.                                                         *)
(***************************************************************************)
LEMMA BatchInLayout ==
  ASSUME NEW i \in 1..Len(Folders)
  PROVE  Batch(i) \subseteq Layout
<1>1. Folders[i] \in Seq(Video)
  BY IndexAssumption
<1>2. Range(Folders[i]) \subseteq Video
  BY <1>1 DEF Range
<1> QED
  BY <1>2 DEF Batch, Layout

\* Where the setup threads are, and what they count, keeps its type.
SetupTypes ==
  /\ exists \in BOOLEAN
  /\ pc \in [Setups -> Over \cup {"look", "drop", "create", "insert", "index", "warm"}]
  /\ at \in [Setups -> Nat]
  /\ alone \in [Setups -> BOOLEAN]
  /\ walk \in Walks
  /\ crashes \in 0..MaxCrashes

LEMMA GenuineInit ==
  Init => PointsAreGenuine
<1> SUFFICES ASSUME Init PROVE PointsAreGenuine
  OBVIOUS
<1>1. <<>> \in Seq(SUBSET Layout)
  OBVIOUS
<1>2. 0 \in 0..MaxCrashes
  BY IndexAssumption
<1>3. SetupTypes
  BY <1>2 DEF Init, SetupTypes, Over
<1>4. points \subseteq Layout /\ points = {} /\ queue = <<>>
  BY DEF Init
<1>5. queue \in Seq(SUBSET Layout)
  BY <1>1, <1>4
<1> QED
  BY <1>3, <1>4, <1>5 DEF IndexTypeOK, PointsAreGenuine, SetupTypes

LEMMA SetupTypesStep ==
  ASSUME SetupTypes, [Next]_vars
  PROVE  SetupTypes'
<1>1. ASSUME NEW b \in Setups, SetupStep(b) PROVE SetupTypes'
  <2> USE DEF SetupTypes, GoTo, Over
  <2>1. CASE Look(b)
    BY <2>1 DEF Look, collVars
  <2>2. CASE Drop(b)
    BY <2>2 DEF Drop
  <2>3. CASE Create(b)
    BY <2>3 DEF Create
  <2>4. CASE Insert(b)
    BY <2>4 DEF Insert, collVars
  <2>5. CASE Raise(b)
    BY <2>5 DEF Raise, collVars
  <2>6. CASE Index(b)
    BY <2>6 DEF Index, collVars
  <2>7. CASE Warm(b)
    BY <2>7 DEF Warm, collVars
  <2> QED
    BY <1>1, <2>1, <2>2, <2>3, <2>4, <2>5, <2>6, <2>7 DEF SetupStep
<1>2. CASE Crash
  <2>1. crashes' \in 0..MaxCrashes
    BY <1>2, IndexAssumption DEF Crash, SetupTypes
  <2> QED
    BY <1>2, <2>1 DEF Crash, SetupTypes, Over, collVars
<1>3. ASSUME NEW b \in Setups, Setup(b) PROVE SetupTypes'
  BY <1>3 DEF Setup, SetupTypes, GoTo, Over, collVars
<1>4. CASE UNCHANGED <<exists, pc, at, alone, walk, crashes>>
  BY <1>4 DEF SetupTypes
<1> QED
  BY <1>1, <1>2, <1>3, <1>4
  DEF Next, Apply, PanelScroll, SegmentScroll, Scroll, vars, collVars

LEMMA GenuineStep ==
  PointsAreGenuine /\ [Next]_vars => PointsAreGenuine'
<1> SUFFICES ASSUME PointsAreGenuine, [Next]_vars PROVE PointsAreGenuine'
  OBVIOUS
<1> DEFINE Genuine == /\ points \subseteq Layout
                      /\ queue \in Seq(SUBSET Layout)
                      /\ ~exists => points = {} /\ queue = <<>>
<1>g. Genuine /\ at \in [Setups -> Nat]
  BY DEF PointsAreGenuine, IndexTypeOK
<1>t. SetupTypes'
  BY SetupTypesStep DEF PointsAreGenuine, IndexTypeOK, SetupTypes
<1>0. SUFFICES Genuine'
  BY <1>t DEF PointsAreGenuine, IndexTypeOK, SetupTypes
<1>1. CASE UNCHANGED collVars
  BY <1>g, <1>1 DEF collVars
<1>2. ASSUME NEW b \in Setups, Drop(b) PROVE Genuine'
  <2>1. <<>> \in Seq(SUBSET Layout) /\ Len(<<>>) = 0
    OBVIOUS
  <2> QED
    BY <1>2, <2>1 DEF Drop
<1>3. ASSUME NEW b \in Setups, Create(b) PROVE Genuine'
  BY <1>g, <1>3 DEF Create
<1>4. ASSUME NEW b \in Setups, Insert(b) PROVE Genuine'
  <2>1. CASE ~exists
    BY <1>g, <1>4, <2>1 DEF Insert
  <2>2. CASE exists
    <3>1. Batch(at[b] + 1) \in SUBSET Layout
      <4>1. at[b] \in Nat /\ at[b] < Len(Folders)
        BY <1>g, <1>4 DEF Insert
      <4>2. Len(Folders) \in Nat
        BY IndexAssumption
      <4>3. at[b] + 1 \in 1..Len(Folders)
        BY <4>1, <4>2
      <4> QED
        BY <4>3, BatchInLayout
    <3>2. queue' = Append(queue, Batch(at[b] + 1)) /\ points' = points /\ exists' = exists
      BY <1>4, <2>2 DEF Insert
    <3>3. queue' \in Seq(SUBSET Layout)
      BY <1>g, <3>1, <3>2
    <3> QED
      BY <1>g, <2>2, <3>2, <3>3
  <2> QED
    BY <2>1, <2>2
<1>5. ASSUME Apply PROVE Genuine'
  <2>1. Head(queue) \in SUBSET Layout /\ Tail(queue) \in Seq(SUBSET Layout)
    BY <1>g, <1>5 DEF Apply
  <2>2. points' \subseteq Layout
    BY <1>g, <1>5, <2>1 DEF Apply, Upsert
  <2>3. queue' \in Seq(SUBSET Layout) /\ exists' = exists /\ exists
    BY <1>g, <1>5, <2>1 DEF Apply
  <2> QED
    BY <2>2, <2>3
<1>6. CASE \E b \in Setups : SetupStep(b)
  BY <1>1, <1>2, <1>3, <1>4, <1>6 DEF SetupStep, Look, Raise, Index, Warm
<1> QED
  BY <1>1, <1>5, <1>6
  DEF Next, Setup, Crash, PanelScroll, SegmentScroll, Scroll, vars, collVars

\* Whatever setups, failures and crashes there are, an id of the collection is
\* never paired with a keyframe other than the one addDatabase gives it.
THEOREM CollectionIsGenuine == Spec => []PointsAreGenuine
  BY GenuineInit, GenuineStep, PTL DEF Spec
-----------------------------------------------------------------------------
(***************************************************************************)
(* Ids.                                                                    *)
(***************************************************************************)
LEMMA Fewer ==
  ASSUME NEW T, IsFiniteSet(T), NEW S \in SUBSET T, NEW x \in T \ S
  PROVE  Cardinality(S) < Cardinality(T)
<1>1. IsFiniteSet(S) /\ Cardinality(S) <= Cardinality(T) /\ (Cardinality(T) = Cardinality(S) => T = S)
  BY FS_Subset
<1>2. Cardinality(S) \in Nat /\ Cardinality(T) \in Nat
  BY <1>1, FS_CardinalityType
<1> QED
  BY <1>1, <1>2

LEMMA KeyframesOfAre ==
  ASSUME NEW v
  PROVE  \A k : k \in KeyframesOf(v) <=> (k = <<v, k[2]>> /\ k[2] \in Frames[v])
BY DEF KeyframesOf

LEMMA EarlierFinite ==
  ASSUME NEW order \in Seq(Video), NEW v \in Video, NEW n
  PROVE  IsFiniteSet(Earlier(order, v, n))
<1> DEFINE N == 0..MaxFrame
<1>1. IsFiniteSet(N)
  <2>1. 0 \in Int /\ MaxFrame \in Int
    BY DEF MaxFrame
  <2> QED
    BY <2>1, FS_Interval
<1>2. IsFiniteSet(Video) /\ \A u \in Video : Frames[u] \subseteq N
  BY FramesAssumption
<1> HIDE DEF N
<1>3. IsFiniteSet(Video \X N)
  BY ONLY <1>1, <1>2, FS_Product
<1>4. \A u \in Video : KeyframesOf(u) \subseteq Video \X N
  BY <1>2 DEF KeyframesOf
<1>5. Before(order, v) \subseteq Video
  <2>1. \A i \in 1..Len(order) : order[i] \in Video
    OBVIOUS
  <2> QED
    BY <2>1 DEF Before
<1>6. Earlier(order, v, n) \subseteq Video \X N
  BY <1>4, <1>5 DEF Earlier
<1> QED
  BY ONLY <1>3, <1>6, FS_Subset

LEMMA IdIsNat ==
  ASSUME NEW order \in Seq(Video), NEW v \in Video, NEW n
  PROVE  Id(order, v, n) \in Nat
BY EarlierFinite, FS_CardinalityType DEF Id

\* The videos before the i-th are those of smaller index, if each is listed once.
LEMMA BeforeIs ==
  ASSUME NEW order \in Seq(Video), IsInjective(order), NEW i \in 1..Len(order)
  PROVE  Before(order, order[i]) = {order[j] : j \in 1..(i - 1)}
<1>1. Len(order) \in Nat /\ DOMAIN order = 1..Len(order)
  OBVIOUS
<1>2. ASSUME NEW j \in 1..Len(order)
      PROVE  (\E k \in (j + 1)..Len(order) : order[k] = order[i]) <=> j < i
  <2>1. ASSUME NEW k \in (j + 1)..Len(order), order[k] = order[i]
        PROVE  j < i
    <3>1. k \in 1..Len(order) /\ j < k
      BY <1>1
    <3>2. k = i
      BY <1>1, <2>1, <3>1 DEF IsInjective
    <3> QED
      BY <3>1, <3>2
  <2>2. ASSUME j < i
        PROVE  i \in (j + 1)..Len(order)
    BY <1>1, <2>2
  <2> QED
    BY <2>1, <2>2
<1>3. {j \in 1..Len(order) : \E k \in (j + 1)..Len(order) : order[k] = order[i]} = 1..(i - 1)
  <2>1. \A j : (j \in 1..Len(order) /\ j < i) <=> j \in 1..(i - 1)
    BY <1>1
  <2> QED
    BY <1>2, <2>1
<1> QED
  BY <1>3 DEF Before

\* Ids grow with the place of the video and, in a video, with the frame.
LEMMA Precedes ==
  ASSUME NEW order \in Seq(Video), IsInjective(order),
         NEW i \in 1..Len(order), NEW j \in 1..Len(order),
         NEW m \in Frames[order[i]], NEW n \in Frames[order[j]],
         i < j \/ (i = j /\ m < n)
  PROVE  Id(order, order[i], m) < Id(order, order[j], n)
<1> DEFINE K == <<order[i], m>>
           S == Earlier(order, order[i], m)
           T == Earlier(order, order[j], n)
<1>0. /\ Len(order) \in Nat /\ order[i] \in Video /\ order[j] \in Video
      /\ i \in Nat /\ j \in Nat /\ DOMAIN order = 1..Len(order)
  OBVIOUS
<1>m. m \in Int /\ n \in Int
  BY <1>0, FramesAssumption
<1>1. K \notin S
  <2>1. order[i] \notin Before(order, order[i])
    <3>0. Before(order, order[i]) = {order[k] : k \in 1..(i - 1)}
      BY BeforeIs
    <3> SUFFICES ASSUME NEW k \in 1..(i - 1), order[i] = order[k] PROVE FALSE
      BY <3>0
    <3>1. k \in 1..Len(order) /\ k # i
      BY <1>0
    <3> QED
      BY <1>0, <3>1 DEF IsInjective
  <2>2. ASSUME NEW u \in Before(order, order[i]), K \in KeyframesOf(u) PROVE FALSE
    BY <2>1, <2>2 DEF KeyframesOf
  <2>3. ~(K[2] < m)
    BY <1>m
  <2> QED
    BY <2>2, <2>3 DEF Earlier
<1>2. K \in T /\ S \subseteq T
  <2>1. CASE i < j
    <3>1. i \in 1..(j - 1) /\ \A k \in 1..(i - 1) : k \in 1..(j - 1)
      BY <1>0, <2>1
    <3>0. /\ Before(order, order[i]) = {order[k] : k \in 1..(i - 1)}
          /\ Before(order, order[j]) = {order[k] : k \in 1..(j - 1)}
      BY BeforeIs
    <3>2. order[i] \in Before(order, order[j])
      BY <3>0, <3>1
    <3>3. Before(order, order[i]) \subseteq Before(order, order[j])
      BY <3>0, <3>1
    <3>4. K \in KeyframesOf(order[i])
      BY DEF KeyframesOf
    <3> QED
      BY <3>2, <3>3, <3>4 DEF Earlier
  <2>2. CASE i = j /\ m < n
    <3>1. K \in KeyframesOf(order[j]) /\ K[2] < n
      BY <2>2 DEF KeyframesOf
    <3>2. ASSUME NEW k \in KeyframesOf(order[j]), k[2] < m PROVE k[2] < n
      <4>1. k[2] \in Frames[order[j]]
        BY DEF KeyframesOf
      <4>2. k[2] \in Int
        BY <1>0, <4>1, FramesAssumption
      <4> QED
        BY <1>m, <2>2, <3>2, <4>2
    <3> QED
      BY <2>2, <3>1, <3>2 DEF Earlier
  <2> QED
    BY <2>1, <2>2
<1>3. IsFiniteSet(T)
  BY <1>0, EarlierFinite
<1> HIDE DEF K, S, T
<1>4. Cardinality(S) < Cardinality(T)
  BY <1>1, <1>2, <1>3, Fewer
<1> QED
  BY <1>4 DEF Id, S, T

\* No two keyframes share an id.
LEMMA Numbered ==
  ASSUME NEW order \in Seq(Video), IsInjective(order), Range(order) = Video,
         NEW u \in Video, NEW v \in Video, NEW m \in Frames[u], NEW n \in Frames[v],
         Id(order, u, m) = Id(order, v, n)
  PROVE  u = v /\ m = n
<1>1. PICK i \in 1..Len(order) : order[i] = u
  BY DEF Range
<1>2. PICK j \in 1..Len(order) : order[j] = v
  BY DEF Range
<1>3. Id(order, u, m) \in Nat /\ Id(order, v, n) \in Nat
  BY IdIsNat
<1>0. m \in Frames[order[i]] /\ n \in Frames[order[j]] /\ Id(order, order[i], m) = Id(order, order[j], n)
  BY <1>1, <1>2
<1>4. ~(i < j \/ (i = j /\ m < n))
  <2> SUFFICES ASSUME i < j \/ (i = j /\ m < n) PROVE FALSE
    OBVIOUS
  <2>1. Id(order, order[i], m) < Id(order, order[j], n)
    BY <1>0, Precedes
  <2> QED
    BY <1>1, <1>2, <1>3, <2>1
<1>5. ~(j < i \/ (j = i /\ n < m))
  <2> SUFFICES ASSUME j < i \/ (j = i /\ n < m) PROVE FALSE
    OBVIOUS
  <2>1. Id(order, order[j], n) < Id(order, order[i], m)
    BY <1>0, Precedes
  <2> QED
    BY <1>1, <1>2, <1>3, <2>1
<1>6. m \in Int /\ n \in Int
  BY FramesAssumption
<1>7. i = j
  BY <1>4, <1>5
<1> QED
  BY <1>1, <1>2, <1>4, <1>5, <1>6, <1>7
-----------------------------------------------------------------------------
(***************************************************************************)
(* A setup that no other one overlaps.                                     *)
(***************************************************************************)
LEMMA NumberedOnce ==
  ASSUME BuiltOnce, NEW u \in Video, NEW v \in Video, NEW m \in Frames[u], NEW n \in Frames[v],
         Id(BuildOrder, u, m) = Id(BuildOrder, v, n)
  PROVE  u = v /\ m = n
BY Numbered DEF BuiltOnce

LEMMA LayoutIs ==
  ASSUME NEW p \in Layout
  PROVE  /\ p = <<p[1], p[2]>> /\ p[2] = <<p[2][1], p[2][2]>>
         /\ p[2][1] \in Video /\ p[2][2] \in Frames[p[2][1]]
         /\ p[1] = Id(BuildOrder, p[2][1], p[2][2])
<1>1. PICK v \in Video : \E k \in KeyframesOf(v) : p = <<Id(BuildOrder, k[1], k[2]), k>>
  BY DEF Layout
<1>2. PICK k \in KeyframesOf(v) : p = <<Id(BuildOrder, k[1], k[2]), k>>
  BY <1>1
<1>3. k = <<v, k[2]>> /\ k[2] \in Frames[v]
  BY KeyframesOfAre
<1> QED
  BY <1>2, <1>3

\* What the collection holds or will hold.
Stored == points \cup UNION {queue[i] : i \in 1..Len(queue)}

Upto(n) == UNION {Batch(i) : i \in 1..n}

\* What a setup that is alone has done so far is what the collection will hold,
\* and once an index has been created, what it holds.
AloneInv ==
  \A b \in Setups : alone[b] =>
    /\ \A d \in Setups \ {b} : pc[d] \in Over
    /\ pc[b] = "create" => ~exists
    /\ pc[b] = "insert" => exists /\ at[b] <= Len(Folders) /\ Stored = Upto(at[b])
    /\ pc[b] \in {"index", "warm"} => exists /\ Stored = Upto(Len(Folders))
    /\ (pc[b] = "warm" \/ (pc[b] = "index" /\ at[b] > 0)) => queue = <<>>

LEMMA StoredMore ==
  ASSUME queue \in Seq(SUBSET Layout), NEW B \in SUBSET Layout,
         queue' = Append(queue, B), points' = points
  PROVE  Stored' = Stored \cup B
<1>1. /\ Len(queue') = Len(queue) + 1 /\ Len(queue) \in Nat
      /\ \A i \in 1..Len(queue) : queue'[i] = queue[i]
      /\ queue'[Len(queue) + 1] = B
  OBVIOUS
<1>2. 1..Len(queue') = (1..Len(queue)) \cup {Len(queue) + 1}
  BY <1>1
<1>3. UNION {queue'[i] : i \in 1..Len(queue')} = (UNION {queue[i] : i \in 1..Len(queue)}) \cup B
  BY <1>1, <1>2
<1> QED
  BY <1>3 DEF Stored

\* Ids are of one keyframe each: an upsert replaces a point by itself.
LEMMA StoredApplied ==
  ASSUME BuiltOnce, points \subseteq Layout, queue \in Seq(SUBSET Layout), Apply
  PROVE  Stored' = Stored
<1> DEFINE h == Head(queue)
<1>1. /\ queue # <<>> /\ points' = Upsert(points, h) /\ queue' = Tail(queue)
  BY DEF Apply
<1>2. /\ Len(queue) \in Nat /\ Len(queue) > 0 /\ Len(queue') = Len(queue) - 1
      /\ h = queue[1] /\ h \subseteq Layout
      /\ \A i \in 1..(Len(queue) - 1) : queue'[i] = queue[i + 1]
  BY <1>1
<1> HIDE DEF h
<1>3. ASSUME NEW p \in Layout, NEW q \in Layout, p[1] = q[1]
      PROVE  p = q
  <2> DEFINE u == p[2][1]
             m == p[2][2]
             v == q[2][1]
             n == q[2][2]
  <2>1. /\ p = <<p[1], <<u, m>>>> /\ u \in Video /\ m \in Frames[u] /\ p[1] = Id(BuildOrder, u, m)
    BY LayoutIs
  <2>2. /\ q = <<q[1], <<v, n>>>> /\ v \in Video /\ n \in Frames[v] /\ q[1] = Id(BuildOrder, v, n)
    BY LayoutIs
  <2>3. Id(BuildOrder, u, m) = Id(BuildOrder, v, n)
    BY <1>3, <2>1, <2>2
  <2> HIDE DEF u, m, v, n
  <2>4. u = v /\ m = n
    BY <2>1, <2>2, <2>3, NumberedOnce
  <2> QED
    BY <1>3, <2>1, <2>2, <2>4
<1>4. points' = points \cup h
  BY <1>1, <1>2, <1>3 DEF Upsert
<1>5. UNION {queue[i] : i \in 1..Len(queue)} = h \cup UNION {queue'[i] : i \in 1..Len(queue')}
  <2>1. ASSUME NEW i \in 1..Len(queue), i # 1
        PROVE  i - 1 \in 1..Len(queue') /\ queue[i] = queue'[i - 1]
    <3>1. i - 1 \in 1..(Len(queue) - 1) /\ (i - 1) + 1 = i
      BY <1>2, <2>1
    <3> QED
      BY <1>2, <3>1
  <2>2. ASSUME NEW i \in 1..Len(queue')
        PROVE  i + 1 \in 1..Len(queue) /\ queue'[i] = queue[i + 1]
    BY <1>2
  <2>3. 1 \in 1..Len(queue) /\ queue[1] = h
    BY <1>2
  <2>4. ASSUME NEW p, NEW i \in 1..Len(queue), p \in queue[i]
        PROVE  p \in h \cup UNION {queue'[j] : j \in 1..Len(queue')}
    <3>1. CASE i = 1
      BY <2>3, <2>4, <3>1
    <3>2. CASE i # 1
      BY <2>1, <2>4, <3>2
    <3> QED
      BY <3>1, <3>2
  <2>5. ASSUME NEW p, NEW j \in 1..Len(queue'), p \in queue'[j]
        PROVE  p \in UNION {queue[i] : i \in 1..Len(queue)}
    BY <2>2, <2>5
  <2>6. h \subseteq UNION {queue[i] : i \in 1..Len(queue)}
    BY <2>3
  <2> QED
    BY <2>4, <2>5, <2>6
<1> QED
  BY <1>4, <1>5 DEF Stored

LEMMA UptoNext ==
  ASSUME NEW n \in Nat
  PROVE  Upto(n + 1) = Upto(n) \cup Batch(n + 1) /\ Upto(0) = {}
<1>1. 1..(n + 1) = (1..n) \cup {n + 1} /\ 1..0 = {}
  OBVIOUS
<1> QED
  BY <1>1 DEF Upto

LEMMA AloneStep ==
  ASSUME BuiltOnce, PointsAreGenuine, AloneInv, [Next]_vars
  PROVE  AloneInv'
<1>t. /\ points \subseteq Layout /\ queue \in Seq(SUBSET Layout) /\ Len(Folders) \in Nat
      /\ ~exists => points = {} /\ queue = <<>>
      /\ at \in [Setups -> Nat] /\ exists \in BOOLEAN
      /\ pc \in [Setups -> Over \cup {"look", "drop", "create", "insert", "index", "warm"}]
  BY IndexAssumption DEF PointsAreGenuine, IndexTypeOK
<1>1. ASSUME NEW d \in Setups, Setup(d)
      PROVE  AloneInv'
  <2>1. /\ pc' = [pc EXCEPT ![d] = "look"]
        /\ alone' = [c \in Setups |-> c = d /\ \A e \in Setups \ {d} : pc[e] \in Over]
    BY <1>1 DEF Setup, GoTo
  <2>2. ASSUME NEW b \in Setups, alone'[b]
        PROVE  b = d /\ pc'[b] = "look" /\ \A e \in Setups \ {b} : pc'[e] \in Over
    BY <1>t, <2>1, <2>2
  <2> QED
    BY <2>2 DEF AloneInv, Over
<1>2. ASSUME NEW d \in Setups, SetupStep(d)
      PROVE  AloneInv'
  <2>0. alone' = alone /\ pc[d] \notin Over
    BY <1>2 DEF SetupStep, Look, Drop, Create, Insert, Raise, Index, Warm, Over
  <2> SUFFICES ASSUME alone[d]
               PROVE  /\ \A e \in Setups \ {d} : pc'[e] \in Over
                      /\ pc'[d] = "create" => ~exists'
                      /\ pc'[d] = "insert" => exists' /\ at'[d] <= Len(Folders) /\ Stored' = Upto(at'[d])
                      /\ pc'[d] \in {"index", "warm"} => exists' /\ Stored' = Upto(Len(Folders))
                      /\ (pc'[d] = "warm" \/ (pc'[d] = "index" /\ at'[d] > 0)) => queue' = <<>>
    BY <2>0 DEF AloneInv, Upto, Batch
  <2>1. /\ \A e \in Setups \ {d} : pc[e] \in Over
        /\ pc[d] = "create" => ~exists
        /\ pc[d] = "insert" => exists /\ at[d] <= Len(Folders) /\ Stored = Upto(at[d])
        /\ pc[d] \in {"index", "warm"} => exists /\ Stored = Upto(Len(Folders))
        /\ (pc[d] = "warm" \/ (pc[d] = "index" /\ at[d] > 0)) => queue = <<>>
    BY DEF AloneInv
  <2>2. ASSUME NEW stage, GoTo(d, stage)
        PROVE  pc'[d] = stage /\ \A e \in Setups \ {d} : pc'[e] \in Over
    BY <1>t, <2>1, <2>2 DEF GoTo
  <2>3. CASE Look(d)
    <3>1. CASE exists
      <4>1. GoTo(d, "drop")
        BY <2>3, <3>1 DEF Look
      <4> QED
        BY <2>2, <4>1
    <3>2. CASE ~exists
      <4>1. GoTo(d, "create") /\ exists' = exists
        BY <2>3, <3>2 DEF Look, collVars
      <4> QED
        BY <2>2, <3>2, <4>1
    <3> QED
      BY <3>1, <3>2
  <2>4. CASE Drop(d)
    BY <2>2, <2>4 DEF Drop
  <2>5. CASE Create(d)
    <3>1. ~exists /\ GoTo(d, "insert") /\ exists' = TRUE /\ at' = [at EXCEPT ![d] = 0]
          /\ points' = points /\ queue' = queue
      BY <2>1, <2>5 DEF Create
    <3>2. Stored' = {}
      BY <1>t, <3>1 DEF Stored
    <3>3. at'[d] = 0 /\ Upto(0) = {} /\ 0 <= Len(Folders) /\ 0 \in Nat
      BY <1>t, <3>1, UptoNext
    <3>4. pc'[d] = "insert" /\ \A e \in Setups \ {d} : pc'[e] \in Over
      BY <2>2, <3>1
    <3> QED
      BY <3>1, <3>2, <3>3, <3>4
  <2>6. CASE Insert(d)
    <3>1. /\ exists /\ pc[d] = "insert" /\ Stored = Upto(at[d])
          /\ at[d] < Len(Folders) /\ exists' = exists /\ points' = points
          /\ queue' = Append(queue, Batch(at[d] + 1))
      BY <2>1, <2>6 DEF Insert
    <3>2. at[d] \in Nat /\ at[d] + 1 \in 1..Len(Folders)
      BY <1>t, <3>1
    <3>3. Batch(at[d] + 1) \in SUBSET Layout
      BY <3>2, BatchInLayout
    <3>4. Stored' = Upto(at[d] + 1)
      BY <1>t, <3>1, <3>2, <3>3, StoredMore, UptoNext
    <3>5. CASE at[d] + 1 < Len(Folders)
      <4>1. GoTo(d, "insert") /\ at' = [at EXCEPT ![d] = at[d] + 1]
        BY <2>6, <3>1, <3>5 DEF Insert
      <4>2. at'[d] = at[d] + 1 /\ at[d] + 1 <= Len(Folders)
        BY <1>t, <3>5, <4>1
      <4>3. pc'[d] = "insert" /\ \A e \in Setups \ {d} : pc'[e] \in Over
        BY <2>2, <4>1
      <4> QED
        BY <3>1, <3>4, <4>2, <4>3
    <3>6. CASE ~(at[d] + 1 < Len(Folders))
      <4>1. GoTo(d, "index") /\ at' = [at EXCEPT ![d] = 0]
        BY <2>6, <3>1, <3>6 DEF Insert
      <4>2. at'[d] = 0 /\ at[d] + 1 = Len(Folders)
        BY <1>t, <3>2, <3>6, <4>1
      <4>3. pc'[d] = "index" /\ \A e \in Setups \ {d} : pc'[e] \in Over
        BY <2>2, <4>1
      <4> QED
        BY <3>1, <3>4, <4>2, <4>3
    <3> QED
      BY <3>5, <3>6
  <2>7. CASE Raise(d)
    BY <2>2, <2>7 DEF Raise
  <2>8. CASE Index(d)
    <3>1. /\ exists /\ queue = <<>> /\ Stored = Upto(Len(Folders))
          /\ exists' = exists /\ points' = points /\ queue' = queue
      BY <2>1, <2>8 DEF Index, collVars
    <3>2. Stored' = Stored
      BY <3>1 DEF Stored
    <3>3. pc'[d] \in {"warm", "index"} /\ \A e \in Setups \ {d} : pc'[e] \in Over
      BY <2>2, <2>8, <3>1 DEF Index
    <3> QED
      BY <3>1, <3>2, <3>3
  <2>9. CASE Warm(d)
    BY <2>2, <2>9 DEF Warm
  <2> QED
    BY <1>2, <2>3, <2>4, <2>5, <2>6, <2>7, <2>8, <2>9 DEF SetupStep
<1>3. CASE Apply
  <2>1. queue # <<>> /\ UNCHANGED <<exists, pc, at, alone>>
    BY <1>3 DEF Apply
  <2>2. Stored' = Stored
    BY <1>t, <1>3, StoredApplied
  <2> QED
    BY <2>1, <2>2 DEF AloneInv, Upto, Batch
<1>4. CASE Crash
  BY <1>4 DEF Crash, AloneInv, Over
<1>5. CASE UNCHANGED <<collVars, pc, at, alone>>
  BY <1>5 DEF AloneInv, collVars, Stored, Upto, Batch
<1> QED
  BY <1>1, <1>2, <1>3, <1>4, <1>5 DEF Next, PanelScroll, SegmentScroll, Scroll, vars, collVars

\* A setup that no other one overlapped answers "Success" only when all keyframes
\* can be found, whatever failed or crashed before: addDatabase does not wait for
\* its upserts, but the payload indexes it creates do.
THEOREM SuccessIsTold ==
  ASSUME BuiltOnce
  PROVE  Spec => ReadyMeansComplete
<1> DEFINE Inv == PointsAreGenuine /\ AloneInv
<1>1. Init => Inv
  BY GenuineInit DEF Init, AloneInv
<1>2. Inv /\ [Next]_vars => Inv'
  BY GenuineStep, AloneStep
<1>3. Inv /\ [Next]_vars => [\A b \in Setups : (Answers(b) /\ alone[b]) => Complete]_vars
  <2> SUFFICES ASSUME Inv, Next, NEW b \in Setups, Answers(b), alone[b]
               PROVE  Complete
    OBVIOUS
  <2>1. pc \in [Setups -> Over \cup {"look", "drop", "create", "insert", "index", "warm"}]
        /\ DOMAIN Folders = 1..Len(Folders)
    BY IndexAssumption DEF PointsAreGenuine, IndexTypeOK
  <2>2. ASSUME NEW d \in Setups, Setup(d) \/ SetupStep(d)
        PROVE  d = b /\ Warm(b)
    <3>1. \E stage : GoTo(d, stage) /\ (stage = "ready" => Warm(d))
      BY <2>2 DEF Setup, SetupStep, Look, Drop, Create, Insert, Raise, Index, Warm
    <3>2. PICK stage : pc' = [pc EXCEPT ![d] = stage] /\ (stage = "ready" => Warm(d))
      BY <3>1 DEF GoTo
    <3> QED
      BY <2>1, <3>2 DEF Answers
  <2>3. ASSUME Apply \/ PanelScroll \/ SegmentScroll
        PROVE  FALSE
    BY <2>3 DEF Apply, PanelScroll, SegmentScroll, Scroll, Answers
  <2>4. ASSUME Crash
        PROVE  FALSE
    BY <2>4 DEF Crash, Answers
  <2>5. Warm(b)
    BY <2>2, <2>3, <2>4 DEF Next
  <2>6. exists /\ queue = <<>> /\ Stored = Upto(Len(Folders))
    BY <2>5 DEF Warm, AloneInv
  <2>7. points = Stored
    BY <2>6 DEF Stored
  <2> QED
    BY <2>1, <2>6, <2>7 DEF Complete, Upto
<1> QED
  BY <1>1, <1>2, <1>3, PTL DEF Spec, ReadyMeansComplete
-----------------------------------------------------------------------------
(***************************************************************************)
(* scroll_video, where the directories are listed as they were numbered.   *)
(***************************************************************************)
Passes(p, v, first, last, hideAnchors, skips) ==
  /\ p[1] \in GetFrames(walk, v, first, last)
  /\ hideAnchors => p[2] \notin Anchors
  /\ \A s \in skips : p[1] \notin GetFrames(walk, s.video, s.from, s.to)

PassingPoints(v, first, last, hideAnchors, skips) ==
  {p \in points : Passes(p, v, first, last, hideAnchors, skips)}

LEMMA ScrollIs ==
  ASSUME NEW k, NEW v, NEW first, NEW last, NEW hideAnchors, NEW skips
  PROVE  ScrollVideo(k, v, first, last, hideAnchors, skips) =
           {p[2] : p \in LowestK(PassingPoints(v, first, last, hideAnchors, skips), k)}
<1> DEFINE wanted == GetFrames(walk, v, first, last)
           skipped == UNION {GetFrames(walk, s.video, s.from, s.to) : s \in skips}
           passing == {p \in points : /\ p[1] \in wanted
                                      /\ hideAnchors => p[2] \notin Anchors
                                      /\ p[1] \notin skipped}
<1>1. ASSUME NEW p
      PROVE  p[1] \notin skipped <=> \A s \in skips : p[1] \notin GetFrames(walk, s.video, s.from, s.to)
  OBVIOUS
<1>2. passing = PassingPoints(v, first, last, hideAnchors, skips)
  BY <1>1 DEF PassingPoints, Passes
<1>3. ScrollVideo(k, v, first, last, hideAnchors, skips) = {p[2] : p \in LowestK(passing, k)}
  BY DEF ScrollVideo
<1> HIDE DEF passing
<1> QED
  BY <1>2, <1>3

\* The window of a point that passes is that of its keyframe's video.
LEMMA PassingIs ==
  ASSUME ListedAsBuilt, PointsAreGenuine, NEW v \in Video, NEW first, NEW last,
         NEW hideAnchors, NEW skips,
         NEW p \in PassingPoints(v, first, last, hideAnchors, skips)
  PROVE  /\ p \in Layout /\ walk = BuildOrder
         /\ p[2] = <<v, p[2][2]>> /\ p[2][2] \in Hits(Frames[v], first, last)
<1>1. walk = BuildOrder /\ p \in Layout /\ p[1] \in GetFrames(walk, v, first, last)
  BY DEF PointsAreGenuine, IndexTypeOK, ListedAsBuilt, PassingPoints, Passes
<1>2. PICK n \in Hits(Frames[v], first, last) : p[1] = Id(BuildOrder, v, n)
  BY <1>1 DEF GetFrames
<1>3. n \in Frames[v]
  BY DEF Hits
<1>4. /\ p[2] = <<p[2][1], p[2][2]>> /\ p[2][1] \in Video /\ p[2][2] \in Frames[p[2][1]]
      /\ p[1] = Id(BuildOrder, p[2][1], p[2][2])
  BY <1>1, LayoutIs
<1>5. p[2][1] = v /\ p[2][2] = n
  <2>1. Id(BuildOrder, p[2][1], p[2][2]) = Id(BuildOrder, v, n)
    BY <1>2, <1>4
  <2> DEFINE u == p[2][1]
             m == p[2][2]
  <2>2. u \in Video /\ m \in Frames[u] /\ Id(BuildOrder, u, m) = Id(BuildOrder, v, n)
    BY <1>4, <2>1
  <2> HIDE DEF u, m
  <2>3. u = v /\ m = n
    BY <1>3, <2>2, NumberedOnce DEF ListedAsBuilt
  <2> QED
    BY <2>3 DEF u, m
<1> QED
  BY <1>1, <1>4, <1>5

\* What is shown passes.
LEMMA ShownPasses ==
  ASSUME NEW k, NEW v, NEW first, NEW last, NEW hideAnchors, NEW skips,
         NEW f \in ScrollVideo(k, v, first, last, hideAnchors, skips)
  PROVE  \E p \in PassingPoints(v, first, last, hideAnchors, skips) : f = p[2]
BY ScrollIs DEF LowestK

LEMMA FramesAre ==
  ASSUME NEW v \in Video
  PROVE  /\ MaxFrame \in Nat /\ Frames[v] \in SUBSET (0..MaxFrame) /\ Frames[v] # {}
         /\ \A n \in Frames[v] : n \in Nat
<1>1. Frames[v] \subseteq 0..MaxFrame /\ Frames[v] # {}
  BY FramesAssumption
<1>2. MaxFrame \in Nat
  BY DEF MaxFrame
<1> QED
  BY <1>1, <1>2

LEMMA Covered ==
  ASSUME NEW v \in Video, NEW first \in Nat \cup {NoFrame}, NEW last \in Nat \cup {NoFrame}
  PROVE  Within(Frames[v], first, last) \subseteq Hits(Frames[v], first, last)
BY FramesAre, WindowIsCovered, FramesAssumption

LEMMA SpillsOnce ==
  ASSUME NEW v \in Video, NEW first \in Nat \cup {NoFrame}, NEW last \in Nat \cup {NoFrame},
         NEW m \in Hits(Frames[v], first, last) \ Within(Frames[v], first, last),
         NEW n \in Hits(Frames[v], first, last) \ Within(Frames[v], first, last)
  PROVE  m = n
<1> DEFINE F == Frames[v]
<1>1. MaxFrame \in Nat /\ F \in SUBSET (0..MaxFrame) /\ F # {} /\ NoFrame \notin Int
  BY FramesAre, FramesAssumption
<1>2. m \in Hits(F, first, last) \ Within(F, first, last)
      /\ n \in Hits(F, first, last) \ Within(F, first, last)
  OBVIOUS
<1> HIDE DEF F
<1> QED
  BY <1>1, <1>2, WindowSpillsOnce

\* What is shown is of the video, and in reach of the window.
LEMMA ShownIs ==
  ASSUME ListedAsBuilt, PointsAreGenuine, NEW k, NEW v \in Video, NEW first, NEW last,
         NEW hideAnchors, NEW skips,
         NEW f \in ScrollVideo(k, v, first, last, hideAnchors, skips)
  PROVE  f = <<v, f[2]>> /\ f[2] \in Hits(Frames[v], first, last)
<1>1. PICK p \in PassingPoints(v, first, last, hideAnchors, skips) : f = p[2]
  BY ShownPasses
<1> QED
  BY <1>1, PassingIs

\* An answer is the one of its step; every other step forgets it.
LEMMA Answered ==
  ASSUME PointsAreGenuine, [Next]_vars
  PROVE  \/ answer' = NoAnswer \/ answer' = answer
         \/ \E k \in Nat, v \in Video, first \in Nat \cup {NoFrame}, last \in Nat \cup {NoFrame},
               hideAnchors \in BOOLEAN, skips \in SUBSET Segments :
              Scroll(k, v, first, last, hideAnchors, skips)
<1>1. CASE \E b \in Setups : Setup(b) \/ SetupStep(b)
  BY <1>1 DEF Setup, SetupStep, Look, Drop, Create, Insert, Raise, Index, Warm
<1>2. CASE Apply \/ Crash \/ UNCHANGED vars
  BY <1>2 DEF Apply, Crash, vars
<1>0. Fps \in Nat /\ Fps > 0 /\ Seconds \subseteq Nat /\ Limits \subseteq Nat
  BY IndexAssumption
<1>t. \A x \in Nat : ToFrame(x) \in Nat
  BY <1>0 DEF ToFrame
<1>3. CASE PanelScroll
  <2>1. PICK k \in Limits, v \in Video, in \in Seconds \cup {NoFrame}, out \in Seconds \cup {NoFrame},
             hideAnchors \in BOOLEAN, skips \in {{}} \cup {{s} : s \in Segments} :
          Scroll(k, v, IF in = NoFrame THEN NoFrame ELSE ToFrame(in),
                 IF out = NoFrame THEN NoFrame ELSE ToFrame(out), hideAnchors, skips)
    BY <1>3 DEF PanelScroll
  <2> DEFINE first == IF in = NoFrame THEN NoFrame ELSE ToFrame(in)
             last == IF out = NoFrame THEN NoFrame ELSE ToFrame(out)
  <2>2. first \in Nat \cup {NoFrame} /\ last \in Nat \cup {NoFrame}
    BY <1>0, <1>t
  <2>3. Scroll(k, v, first, last, hideAnchors, skips)
    BY <2>1
  <2> HIDE DEF first, last
  <2>4. skips \in SUBSET Segments /\ k \in Nat
    BY <1>0
  <2> QED
    BY <2>2, <2>3, <2>4
<1>4. CASE SegmentScroll
  <2>1. PICK s \in Segments, hideAnchors \in BOOLEAN :
          Scroll(SegmentLimit, s.video, ToFrame(ToSecond(s.from)), ToFrame(ToSecond(s.to)),
                 hideAnchors, {})
    BY <1>4 DEF SegmentScroll
  <2>2. s.video \in Video /\ s.from \in Nat /\ s.to \in Nat /\ SegmentLimit \in Nat
    BY IndexAssumption DEF SegmentLimit
  <2>3. \A x \in Nat : ToSecond(x) \in Nat
    BY <1>0 DEF ToSecond
  <2>4. ToFrame(ToSecond(s.from)) \in Nat /\ ToFrame(ToSecond(s.to)) \in Nat
    BY <1>t, <2>2, <2>3
  <2>5. {} \in SUBSET Segments
    OBVIOUS
  <2> QED
    BY <2>1, <2>2, <2>4, <2>5
<1> QED
  BY <1>1, <1>2, <1>3, <1>4 DEF Next

LEMMA ScrollAnswers ==
  ASSUME NEW k, NEW v, NEW first, NEW last, NEW hideAnchors, NEW skips,
         Scroll(k, v, first, last, hideAnchors, skips)
  PROVE  /\ answer'.k = k /\ answer'.video = v /\ answer'.first = first /\ answer'.last = last
         /\ answer'.hideAnchors = hideAnchors /\ answer'.skips = skips
         /\ answer'.complete = Complete
         /\ answer'.frames = ScrollVideo(k, v, first, last, hideAnchors, skips)
BY DEF Scroll

\* scroll_video shows frames of the video asked for, however the collection was
\* built, as long as the directories are listed in the order of the build.
THEOREM ScrollStays ==
  ASSUME ListedAsBuilt
  PROVE  Spec => []ScrollStaysInVideo
<1>1. Init => PointsAreGenuine /\ ScrollStaysInVideo
  BY GenuineInit DEF Init, ScrollStaysInVideo
<1>2. PointsAreGenuine /\ ScrollStaysInVideo /\ [Next]_vars => (PointsAreGenuine /\ ScrollStaysInVideo)'
  <2> SUFFICES ASSUME PointsAreGenuine, ScrollStaysInVideo, [Next]_vars
               PROVE  ScrollStaysInVideo'
    BY GenuineStep
  <2>1. CASE answer' = NoAnswer \/ answer' = answer
    BY <2>1 DEF ScrollStaysInVideo
  <2>2. ASSUME NEW k \in Nat, NEW v \in Video, NEW first \in Nat \cup {NoFrame},
               NEW last \in Nat \cup {NoFrame}, NEW hideAnchors \in BOOLEAN,
               NEW skips \in SUBSET Segments, Scroll(k, v, first, last, hideAnchors, skips)
        PROVE  ScrollStaysInVideo'
    <3>1. answer'.video = v /\ answer'.frames = ScrollVideo(k, v, first, last, hideAnchors, skips)
      BY <2>2, ScrollAnswers
    <3>2. ASSUME NEW f \in ScrollVideo(k, v, first, last, hideAnchors, skips)
          PROVE  f[1] = v
      BY ShownIs
    <3> QED
      BY <3>1, <3>2 DEF ScrollStaysInVideo
  <2> QED
    BY <2>1, <2>2, Answered
<1> QED
  BY <1>1, <1>2, PTL DEF Spec

\* No frame of an excluded shot is shown, whichever windows are asked for.
THEOREM ExclusionsHold ==
  ASSUME ListedAsBuilt
  PROVE  Spec => []ExcludedNeverShown
<1>1. Init => PointsAreGenuine /\ ExcludedNeverShown
  BY GenuineInit DEF Init, ExcludedNeverShown
<1>2. PointsAreGenuine /\ ExcludedNeverShown /\ [Next]_vars => (PointsAreGenuine /\ ExcludedNeverShown)'
  <2> SUFFICES ASSUME PointsAreGenuine, ExcludedNeverShown, [Next]_vars
               PROVE  ExcludedNeverShown'
    BY GenuineStep
  <2>1. CASE answer' = NoAnswer \/ answer' = answer
    BY <2>1 DEF ExcludedNeverShown
  <2>2. ASSUME NEW k \in Nat, NEW v \in Video, NEW first \in Nat \cup {NoFrame},
               NEW last \in Nat \cup {NoFrame}, NEW hideAnchors \in BOOLEAN,
               NEW skips \in SUBSET Segments, Scroll(k, v, first, last, hideAnchors, skips)
        PROVE  ExcludedNeverShown'
    <3>1. answer'.skips = skips /\ answer'.frames = ScrollVideo(k, v, first, last, hideAnchors, skips)
      BY <2>2, ScrollAnswers
    <3>2. ASSUME NEW s \in skips, NEW f \in ScrollVideo(k, v, first, last, hideAnchors, skips),
                 f[1] = s.video, s.from <= f[2], f[2] <= s.to
          PROVE  FALSE
      <4>1. PICK p \in PassingPoints(v, first, last, hideAnchors, skips) : f = p[2]
        BY ShownPasses
      <4>2. p \in Layout /\ walk = BuildOrder
        BY PassingIs
      <4>3. f[1] \in Video /\ f[2] \in Frames[f[1]] /\ p[1] = Id(BuildOrder, f[1], f[2])
        BY <4>1, <4>2, LayoutIs
      <4>4. s.from \in Nat /\ s.to \in Nat
        BY IndexAssumption
      <4>5. f[2] \in Within(Frames[f[1]], s.from, s.to)
        <5>1. s.from # NoFrame /\ From(s.from) = s.from
          BY <4>4, FramesAssumption DEF From
        <5> QED
          BY <3>2, <4>3, <5>1 DEF Within
      <4>6. f[2] \in Hits(Frames[f[1]], s.from, s.to)
        <5>1. Within(Frames[f[1]], s.from, s.to) \subseteq Hits(Frames[f[1]], s.from, s.to)
          BY <4>3, <4>4, Covered
        <5> QED
          BY <4>5, <5>1
      <4>7. p[1] \in GetFrames(walk, s.video, s.from, s.to)
        BY <3>2, <4>2, <4>3, <4>6 DEF GetFrames
      <4> QED
        BY <4>7 DEF PassingPoints, Passes
    <3> QED
      BY <3>1, <3>2 DEF ExcludedNeverShown
  <2> QED
    BY <2>1, <2>2, Answered
<1> QED
  BY <1>1, <1>2, PTL DEF Spec
\* What the window of an excluded shot hits is in the shot or is the first
\* keyframe after it.
LEMMA Skipped ==
  ASSUME NEW v \in Video, NEW from \in Nat, NEW to \in Nat,
         \E a \in Frames[v] : from <= a,
         NEW n \in Hits(Frames[v], from, to)
  PROVE  from <= n /\ \A a \in Frames[v] : to < a => n <= a
<1> DEFINE F == Frames[v]
<1>1. MaxFrame \in Nat /\ F \in SUBSET (0..MaxFrame) /\ F # {} /\ \A a \in F : a \in Nat
  BY FramesAre
<1>2. NoFrame \notin Int /\ from # NoFrame /\ to # NoFrame /\ From(from) = from
  BY FramesAssumption DEF From
<1> HIDE DEF F
<1>3. /\ Start(F, from) \in F
      /\ Start(F, from) < From(from) => \A a \in F : a <= Start(F, from)
  BY <1>1, <1>2, StartIs
<1>4. /\ End(F, to) \in F
      /\ \A a \in F : a < End(F, to) => (to = NoFrame \/ a <= to)
  BY <1>1, <1>2, EndIs
<1>5. n \in F /\ Start(F, from) <= n /\ n <= End(F, to)
  BY DEF Hits, F
<1>6. PICK b \in F : from <= b
  BY DEF F
<1>7. n \in Nat /\ Start(F, from) \in Nat /\ End(F, to) \in Nat /\ b \in Nat
  BY <1>1, <1>3, <1>4, <1>5
<1>8. from <= Start(F, from)
  BY <1>2, <1>3, <1>6, <1>7
<1>9. ASSUME NEW a \in F, to < a
      PROVE  n <= a
  BY <1>1, <1>2, <1>4, <1>5, <1>7, <1>9
<1> QED
  BY <1>5, <1>7, <1>8, <1>9 DEF F

\* When fewer than k points are shown, every point that passes is.
LEMMA Uncut ==
  ASSUME NEW k \in Nat, NEW S \in SUBSET points, PointsAreGenuine, IsFiniteSet(S),
         BuildOrder \in Seq(Video), Cardinality({p[2] : p \in LowestK(S, k)}) < k
  PROVE  LowestK(S, k) = S
<1> DEFINE L == LowestK(S, k)
           F == {p[2] : p \in L}
           f == [p \in L |-> p[2]]
<1>1. L \subseteq S /\ \A p \in S : p \in L <=> Cardinality({q \in S : q[1] < p[1]}) < k
  BY DEF LowestK
<1>2. \A p \in S : p[1] = Id(BuildOrder, p[2][1], p[2][2]) /\ p = <<p[1], p[2]>> /\ p[2][1] \in Video
  BY LayoutIs DEF PointsAreGenuine
<1>3. \A p \in S : p[1] \in Nat
  BY <1>2, IdIsNat
<1>4. Cardinality(F) < k
  OBVIOUS
<1> HIDE DEF L
<1>5. IsFiniteSet(L)
  BY <1>1, FS_Subset
<1>6. f \in Surjection(L, F)
  BY DEF Surjection
<1>7. f \in Injection(L, F)
  <2>1. \A p, q \in L : p[2] = q[2] => p = q
    BY <1>1, <1>2
  <2> QED
    BY <2>1 DEF Injection, IsInjective
<1> HIDE DEF F, f
<1>8. Cardinality(L) < k
  BY <1>4, <1>5, <1>6, <1>7, FS_Surjection
<1>9. ASSUME S \ L # {}
      PROVE  FALSE
  <2> DEFINE M == {q[1] : q \in S \ L}
  <2>1. M \in SUBSET Nat /\ M # {}
    BY <1>3, <1>9
  <2>2. Least(M) \in M /\ \A m \in M : Least(M) <= m
    BY <2>1, LeastIs
  <2>3. PICK p \in S \ L : \A q \in S \ L : p[1] <= q[1]
    BY <2>2
  <2> DEFINE B == {q \in S : q[1] < p[1]}
  <2>4. B \subseteq L
    BY <1>3, <2>3
  <2> HIDE DEF B
  <2>5. IsFiniteSet(B) /\ Cardinality(B) <= Cardinality(L)
    BY <1>5, <2>4, FS_Subset
  <2>6. Cardinality(B) \in Nat /\ Cardinality(L) \in Nat
    BY <1>5, <2>5, FS_CardinalityType
  <2>7. Cardinality(B) < k
    BY <1>8, <2>5, <2>6
  <2> QED
    BY <1>1, <2>3, <2>7 DEF B
<1> QED
  BY <1>1, <1>9 DEF L

LEMMA PointsFinite ==
  ASSUME PointsAreGenuine, BuildOrder \in Seq(Video)
  PROVE  IsFiniteSet(points)
<1> DEFINE N == 0..MaxFrame
           f == [p \in points |-> p[2]]
<1>1. IsFiniteSet(N)
  <2>1. 0 \in Int /\ MaxFrame \in Int
    BY DEF MaxFrame
  <2> QED
    BY <2>1, FS_Interval
<1>2. IsFiniteSet(Video) /\ \A u \in Video : Frames[u] \subseteq N
  BY FramesAssumption
<1> HIDE DEF N
<1>3. IsFiniteSet(Video \X N)
  BY ONLY <1>1, <1>2, FS_Product
<1>4. \A p \in points : /\ p = <<p[1], p[2]>> /\ p[2] = <<p[2][1], p[2][2]>>
                        /\ p[2][1] \in Video /\ p[2][2] \in Frames[p[2][1]]
                        /\ p[1] = Id(BuildOrder, p[2][1], p[2][2])
  BY LayoutIs DEF PointsAreGenuine
<1>5. \A p \in points : p[2] \in Video \X N
  BY <1>2, <1>4
<1>6. \A p, q \in points : p[2] = q[2] => p = q
  BY <1>4
<1>7. f \in Injection(points, Video \X N)
  BY <1>5, <1>6 DEF Injection, IsInjective
<1> HIDE DEF f
<1> QED
  BY <1>3, <1>7, FS_Injection

\* The window of a scroll is searched completely: a keyframe of it passes unless
\* it is hidden or excluded; and it reaches one keyframe beyond, at most.
LEMMA ScrollCovers ==
  ASSUME ListedAsBuilt, PointsAreGenuine,
         NEW k \in Nat, NEW v \in Video, NEW first \in Nat \cup {NoFrame},
         NEW last \in Nat \cup {NoFrame}, NEW hideAnchors \in BOOLEAN,
         NEW skips \in SUBSET Segments, Scroll(k, v, first, last, hideAnchors, skips)
  PROVE  ScrollCoversWindow'
<1> DEFINE window == Within(Frames[v], first, last)
           excluded(n) == \E s \in skips : /\ s.video = v /\ s.from <= n
                                           /\ \A m \in Frames[v] : s.to < m => n <= m
           S == PassingPoints(v, first, last, hideAnchors, skips)
           shown == ScrollVideo(k, v, first, last, hideAnchors, skips)
<1>1. /\ answer'.k = k /\ answer'.video = v /\ answer'.first = first /\ answer'.last = last
      /\ answer'.hideAnchors = hideAnchors /\ answer'.skips = skips
      /\ answer'.complete = Complete /\ answer'.frames = shown
  BY ScrollAnswers
<1>2. walk = BuildOrder /\ BuildOrder \in Seq(Video)
  BY DEF PointsAreGenuine, IndexTypeOK, ListedAsBuilt, BuiltOnce
<1>3. Cardinality({f \in shown : f[2] \notin window}) <= 1
  <2> DEFINE T == {f \in shown : f[2] \notin window}
  <2>1. ASSUME NEW f \in T, NEW g \in T
        PROVE  f = g
    <3>1. f \in shown /\ g \in shown /\ f[2] \notin window /\ g[2] \notin window
      OBVIOUS
    <3>2. f = <<v, f[2]>> /\ f[2] \in Hits(Frames[v], first, last)
      BY <3>1, ShownIs
    <3>3. g = <<v, g[2]>> /\ g[2] \in Hits(Frames[v], first, last)
      BY <3>1, ShownIs
    <3>4. f[2] = g[2]
      BY <3>1, <3>2, <3>3, SpillsOnce
    <3> QED
      BY <3>2, <3>3, <3>4
  <2> HIDE DEF T
  <2>2. CASE T = {}
    BY <2>2, FS_EmptySet DEF T
  <2>3. CASE T # {}
    <3>1. PICK f \in T : T = {f}
      BY <2>1, <2>3
    <3>2. Cardinality(T) = 1
      BY <3>1, FS_Singleton
    <3> QED
      BY <3>2 DEF T
  <2> QED
    BY <2>2, <2>3
<1>4. ASSUME Complete, Cardinality(shown) < k, NEW n \in window
      PROVE  \/ <<v, n>> \in shown
             \/ hideAnchors /\ <<v, n>> \in Anchors
             \/ excluded(n)
  <2> DEFINE p == <<Id(BuildOrder, v, n), <<v, n>>>>
  <2>1. n \in Frames[v] /\ n \in Hits(Frames[v], first, last)
    BY Covered DEF Within
  <2>2. p \in points
    <3>1. PICK i \in DOMAIN Folders : v \in Range(Folders[i])
      BY DEF ListedAsBuilt, BuiltOnce
    <3>2. <<v, n>> \in KeyframesOf(v)
      BY <2>1 DEF KeyframesOf
    <3>3. p \in Batch(i)
      BY <3>1, <3>2 DEF Batch
    <3> QED
      BY <1>4, <3>1, <3>3 DEF Complete
  <2>3. p[1] \in GetFrames(walk, v, first, last)
    BY <1>2, <2>1 DEF GetFrames
  <2>4. CASE \E s \in skips : p[1] \in GetFrames(walk, s.video, s.from, s.to)
    <3>1. PICK s \in skips : p[1] \in GetFrames(walk, s.video, s.from, s.to)
      BY <2>4
    <3>2. PICK m \in Hits(Frames[s.video], s.from, s.to) : Id(BuildOrder, v, n) = Id(BuildOrder, s.video, m)
      BY <1>2, <3>1 DEF GetFrames
    <3>3. /\ s.video \in Video /\ s.from \in Nat /\ s.to \in Nat
          /\ \E a \in Frames[s.video] : s.from <= a
      BY IndexAssumption
    <3>4. m \in Frames[s.video]
      BY DEF Hits
    <3>5. s.video = v /\ m = n
      <4> DEFINE u == s.video
      <4>1. u \in Video /\ m \in Frames[u] /\ Id(BuildOrder, v, n) = Id(BuildOrder, u, m)
        BY <3>2, <3>3, <3>4
      <4> HIDE DEF u
      <4>2. v = u /\ n = m
        BY <2>1, <4>1, NumberedOnce DEF ListedAsBuilt
      <4> QED
        BY <4>2 DEF u
    <3>6. n \in Hits(Frames[v], s.from, s.to)
      BY <3>2, <3>5
    <3>7. s.from <= n /\ \A a \in Frames[v] : s.to < a => n <= a
      BY <3>3, <3>5, <3>6, Skipped
    <3> QED
      BY <3>5, <3>7
  <2>5. CASE hideAnchors /\ <<v, n>> \in Anchors
    BY <2>5
  <2>6. CASE /\ \A s \in skips : p[1] \notin GetFrames(walk, s.video, s.from, s.to)
             /\ hideAnchors => p[2] \notin Anchors
    <3>1. p \in S
      BY <2>2, <2>3, <2>6 DEF PassingPoints, Passes
    <3>2. shown = {q[2] : q \in LowestK(S, k)}
      BY ScrollIs
    <3>3. S \subseteq points /\ IsFiniteSet(S)
      <4>1. S \subseteq points
        BY DEF PassingPoints
      <4> QED
        BY <1>2, <4>1, PointsFinite, FS_Subset
    <3> HIDE DEF S, p
    <3>4. LowestK(S, k) = S
      BY <1>2, <1>4, <3>2, <3>3, Uncut
    <3>5. p[2] \in shown
      BY <3>1, <3>2, <3>4
    <3> QED
      BY <3>5 DEF p
  <2> QED
    BY <2>4, <2>5, <2>6
<1> HIDE DEF window, shown, S
<1> QED
  BY <1>1, <1>3, <1>4 DEF ScrollCoversWindow, window

\* scroll_video answers the window it is asked for: no keyframe of it is missing
\* from an answer that k does not cut off, unless it is a presenter's or excluded,
\* and at most one keyframe is not of the window.
THEOREM ScrollIsWhole ==
  ASSUME ListedAsBuilt
  PROVE  Spec => []ScrollCoversWindow
<1>1. Init => PointsAreGenuine /\ ScrollCoversWindow
  BY GenuineInit DEF Init, ScrollCoversWindow
<1>2. PointsAreGenuine /\ ScrollCoversWindow /\ [Next]_vars => (PointsAreGenuine /\ ScrollCoversWindow)'
  <2> SUFFICES ASSUME PointsAreGenuine, ScrollCoversWindow, [Next]_vars
               PROVE  ScrollCoversWindow'
    BY GenuineStep
  <2>1. CASE answer' = NoAnswer \/ answer' = answer
    BY <2>1 DEF ScrollCoversWindow
  <2> QED
    BY <2>1, Answered, ScrollCovers
<1> QED
  BY <1>1, <1>2, PTL DEF Spec
=============================================================================
