------------------------ MODULE TemporalSearchProofs -------------------------
(***************************************************************************)
(* Proofs about TemporalSearch, for any videos, keyframes, similarities,   *)
(* filters and number of scenes.                                           *)
(***************************************************************************)
EXTENDS TemporalSearch, FiniteSetTheorems, WellFoundedInduction, TLAPS

\* A search goes through its scenes one by one.
ScenesInRange == Len(sims) <= Segments(request.ends)

Inv == TypeOK /\ ScenesInRange /\ MomentsAreDistinct /\ ScoresAreSums

-----------------------------------------------------------------------------
LEMMA KeyframesFinite == IsFiniteSet(Keyframe)
<1>1. PICK top \in Int : \A v \in Video : Frames[v] \subseteq 0..top
  <2>1. \A v \in Video : Frames[v] \subseteq 0..MaxFrame
    BY FramesAssumption
  <2>2. MaxFrame \in Int
    BY DEF MaxFrame
  <2> QED
    BY <2>1, <2>2
<1> DEFINE N == 0..top
<1>2. IsFiniteSet(N)
  <2>1. 0 \in Int
    OBVIOUS
  <2> QED
    BY <2>1, FS_Interval
<1>3. \A v \in Video : Frames[v] \subseteq N
  BY <1>1
<1>4. IsFiniteSet(Video)
  BY FramesAssumption
<1> HIDE DEF N
<1>5. IsFiniteSet(Video \X N)
  BY ONLY <1>2, <1>4, FS_Product
<1>6. Keyframe \subseteq Video \X N
  BY <1>3 DEF Keyframe, KeyframesOf
<1> QED
  BY ONLY <1>5, <1>6, FS_Subset

LEMMA SegmentsNat == \A r \in Requests : Segments(r.ends) \in Nat
<1> TAKE r \in Requests
<1> DEFINE I == {i \in 1..(Len(r.ends) - 1) : r.ends[i] = "stop"}
<1>1. Len(r.ends) \in Nat
  BY TemporalAssumption
<1>2. IsFiniteSet(1..(Len(r.ends) - 1))
  BY <1>1, FS_Interval
<1>3. IsFiniteSet(I)
  BY <1>2, FS_Subset
<1>4. Cardinality(I) \in Nat
  BY <1>3, FS_CardinalityType
<1> QED
  BY <1>4 DEF Segments

\* Whatever is searched is a keyframe.
LEMMA SearchedKeyframes ==
  ASSUME TypeOK
  PROVE  Searched \subseteq Keyframe
<1>1. Passing(request) \subseteq Keyframe
  BY DEF Passing
<1>2. CASE sims # <<>>
  <2>1. SUFFICES ASSUME NEW i \in DOMAIN rows,
                        NEW n \in Hits(Frames[Moment(rows[i])[1]], Moment(rows[i])[2] + 1,
                                       Moment(rows[i])[2] + Gap)
                 PROVE  <<Moment(rows[i])[1], n>> \in Keyframe
    BY <1>2 DEF Searched, Following
  <2>2. rows[i] \in Seq(Entry) /\ Len(rows[i]) = Len(sims) /\ Len(sims) \in Nat \ {0}
    BY <1>2 DEF TypeOK
  <2>3. rows[i][Len(rows[i])] \in Entry
    BY <2>2
  <2>M. Moment(rows[i]) \in Keyframe
    BY <2>3 DEF Moment, Entry
  <2>4. PICK v \in Video : Moment(rows[i]) \in KeyframesOf(v)
    BY <2>M DEF Keyframe
  <2>5. Moment(rows[i])[1] = v
    BY <2>4 DEF KeyframesOf
  <2>6. n \in Frames[v]
    BY <2>5 DEF Hits
  <2> QED
    BY <2>5, <2>6 DEF Keyframe, KeyframesOf
<1> QED
  BY <1>1, <1>2 DEF Searched

\* What Qdrant answers: keyframes, none of them twice.
LEMMA RankedHits ==
  ASSUME Inv, NEW sim, NEW hits \in Ranked(Searched, sim, Limit)
  PROVE  /\ hits \in Seq(Keyframe)
         /\ \A i, j \in DOMAIN hits : hits[i] = hits[j] => i = j
<1> DEFINE c == Cardinality(Searched)
           m == IF Limit < c THEN Limit ELSE c
<1>1. Searched \subseteq Keyframe
  BY SearchedKeyframes DEF Inv
<1>2. IsFiniteSet(Searched)
  BY <1>1, KeyframesFinite, FS_Subset
<1>3. c \in Nat
  BY <1>2, FS_CardinalityType
<1>4. Limit \in Nat
  <2>1. request.k \in Nat /\ Segments(request.ends) \in Nat
    BY SegmentsNat, TemporalAssumption DEF Inv, TypeOK
  <2>2. Len(sims) \in Nat /\ Len(sims) <= Segments(request.ends)
    BY DEF Inv, TypeOK, ScenesInRange
  <2> DEFINE d == Segments(request.ends) - Len(sims)
  <2>3. d \in Nat
    BY <2>1, <2>2
  <2> HIDE DEF d
  <2>4. request.k * d \in Nat
    BY <2>1, <2>3
  <2> QED
    BY <2>4 DEF Limit, d
<1>5. m \in Nat
  BY <1>3, <1>4
<1>6. hits \in [1..m -> Searched]
  BY DEF Ranked
<1>7. DOMAIN hits = 1..m
  BY <1>6
<1>8. \A i, j \in DOMAIN hits : i < j => hits[i] # hits[j]
  BY DEF Ranked
<1> HIDE DEF m
<1>9. hits \in Seq(Keyframe)
  BY <1>1, <1>5, <1>6
<1>10. \A i, j \in DOMAIN hits : i \in Int /\ j \in Int
  BY <1>7
<1> QED
  BY <1>8, <1>9, <1>10

-----------------------------------------------------------------------------
LEMMA InitInv == Init => Inv
<1> SUFFICES ASSUME Init PROVE Inv
  OBVIOUS
<1>1. TypeOK
  BY DEF Init, TypeOK
<1>2. ScenesInRange
  BY SegmentsNat DEF Init, ScenesInRange
<1>3. MomentsAreDistinct /\ ScoresAreSums
  BY DEF Init, MomentsAreDistinct, ScoresAreSums
<1> QED
  BY <1>1, <1>2, <1>3 DEF Inv

LEMMA AskInv == Inv /\ Ask => Inv'
<1> SUFFICES ASSUME Inv, Ask PROVE Inv'
  OBVIOUS
<1>1. request' \in Requests /\ rows' = <<>> /\ sims' = <<>> /\ pc' = "searching"
  BY DEF Ask
<1>2. TypeOK'
  BY <1>1 DEF TypeOK
<1>3. ScenesInRange'
  BY <1>1, SegmentsNat DEF ScenesInRange
<1>4. MomentsAreDistinct' /\ ScoresAreSums'
  BY <1>1 DEF MomentsAreDistinct, ScoresAreSums
<1> QED
  BY <1>2, <1>3, <1>4 DEF Inv

LEMMA FirstSceneInv == Inv /\ FirstScene => Inv'
<1> SUFFICES ASSUME Inv, FirstScene PROVE Inv'
  OBVIOUS
<1>1. PICK sim \in Similarity : \E hits \in Ranked(Searched, sim, Limit) :
        /\ rows' = [i \in DOMAIN hits |-> <<[frame |-> hits[i], score |-> sim[hits[i]]]>>]
        /\ sims' = <<sim>>
  BY DEF FirstScene
<1>2. PICK hits \in Ranked(Searched, sim, Limit) :
        /\ rows' = [i \in DOMAIN hits |-> <<[frame |-> hits[i], score |-> sim[hits[i]]]>>]
        /\ sims' = <<sim>>
  BY <1>1
<1>3. hits \in Seq(Keyframe) /\ \A i, j \in DOMAIN hits : hits[i] = hits[j] => i = j
  BY RankedHits
<1>4. sim \in [Keyframe -> Int]
  BY TemporalAssumption
<1>5. DOMAIN rows' = DOMAIN hits
  BY <1>2
<1>6. ASSUME NEW i \in DOMAIN hits
      PROVE  /\ rows'[i] \in Seq(Entry) /\ Len(rows'[i]) = 1
             /\ rows'[i][1].frame = hits[i] /\ rows'[i][1].score = sim[hits[i]]
             /\ sim[hits[i]] \in Int
  <2> DEFINE e == [frame |-> hits[i], score |-> sim[hits[i]]]
  <2>1. hits[i] \in Keyframe
    BY <1>3
  <2>2. sim[hits[i]] \in Int
    BY <1>4, <2>1
  <2>3. e \in Entry /\ e.frame = hits[i] /\ e.score = sim[hits[i]]
    BY <2>1, <2>2 DEF Entry
  <2>4. rows'[i] = <<e>>
    BY <1>2
  <2> HIDE DEF e
  <2>5. <<e>> \in Seq(Entry) /\ Len(<<e>>) = 1 /\ <<e>>[1] = e
    BY <2>3
  <2> QED
    BY <2>2, <2>3, <2>4, <2>5
<1>7. rows' \in [1..Len(hits) -> Seq(Entry)] /\ Len(hits) \in Nat
  <2>1. DOMAIN hits = 1..Len(hits) /\ Len(hits) \in Nat
    BY <1>3
  <2>2. rows' = [i \in 1..Len(hits) |-> rows'[i]]
    BY <1>2, <2>1
  <2> QED
    BY <1>6, <2>1, <2>2
<1>8. sims' \in Seq(Similarity) /\ Len(sims') = 1 /\ sims'[1] = sim
  BY <1>2
<1>9. TypeOK'
  <2>1. rows' \in Seq(Seq(Entry))
    BY <1>7
  <2>2. pc' = pc /\ request' = request
    BY DEF FirstScene
  <2> QED
    BY <2>1, <2>2, <1>5, <1>6, <1>8 DEF TypeOK, Inv
<1>10. ScenesInRange'
  <2>1. request' = request /\ Segments(request.ends) \in Nat
    BY SegmentsNat DEF FirstScene, Inv, TypeOK
  <2>2. Segments(request.ends) >= 1
    <3> DEFINE I == {i \in 1..(Len(request.ends) - 1) : request.ends[i] = "stop"}
    <3>1. Len(request.ends) \in Nat
      BY TemporalAssumption DEF Inv, TypeOK
    <3>4. IsFiniteSet(1..(Len(request.ends) - 1))
      BY <3>1, FS_Interval
    <3>2. IsFiniteSet(I)
      BY <3>4, FS_Subset
    <3>3. Cardinality(I) \in Nat
      BY <3>2, FS_CardinalityType
    <3> QED
      BY <3>3 DEF Segments
  <2> QED
    BY <1>8, <2>1, <2>2 DEF ScenesInRange
<1>11. MomentsAreDistinct'
  <2>1. SUFFICES ASSUME NEW i \in DOMAIN hits, NEW j \in DOMAIN hits,
                        rows'[i][1].frame = rows'[j][1].frame
                 PROVE  i = j
    BY <1>5, <1>8 DEF MomentsAreDistinct
  <2> QED
    BY <2>1, <1>3, <1>6
<1>12. ScoresAreSums'
  <2> SUFFICES ASSUME NEW i \in DOMAIN hits
               PROVE  rows'[i][1].score = sims'[1][rows'[i][1].frame] + 0
    BY <1>5, <1>8 DEF ScoresAreSums
  <2> QED
    BY <1>6, <1>8
<1> QED
  BY <1>9, <1>10, <1>11, <1>12 DEF Inv

-----------------------------------------------------------------------------
\* What merge_scores returns: rows that go on from a row found before, one for
\* each match it kept.
LEMMA MergedRows ==
  ASSUME Inv, sims # <<>>, NEW sim \in Similarity,
         NEW hits \in Ranked(Searched, sim, Limit), NEW new \in Merged(hits, sim)
  PROVE  \E n \in Nat : \E s \in [1..n -> Kept(hits, sim)] :
           /\ new = [p \in 1..n |->
                      Append(rows[s[p][2]], [frame |-> hits[s[p][1]],
                                             score |-> NewScore(hits, sim, s[p])])]
           /\ \A p, q \in 1..n : p < q => Ahead(hits, sim, s[p], s[q])
<1> DEFINE K == Kept(hits, sim)
           n == Cardinality(K)
<1>1. hits \in Seq(Keyframe) /\ rows \in Seq(Seq(Entry))
  BY RankedHits DEF Inv, TypeOK
<1>2. IsFiniteSet(DOMAIN hits) /\ IsFiniteSet(DOMAIN rows)
  <2>1. DOMAIN hits = 1..Len(hits) /\ Len(hits) \in Int /\ DOMAIN rows = 1..Len(rows)
        /\ Len(rows) \in Int /\ 1 \in Int
    BY <1>1
  <2>2. IsFiniteSet(1..Len(hits))
    BY <2>1, FS_Interval
  <2>3. IsFiniteSet(1..Len(rows))
    BY <2>1, FS_Interval
  <2> QED
    BY <2>1, <2>2, <2>3
<1>3. IsFiniteSet((DOMAIN hits) \X (DOMAIN rows))
  BY <1>2, FS_Product
<1>4. K \subseteq (DOMAIN hits) \X (DOMAIN rows)
  BY DEF Kept, Matches
<1>5. IsFiniteSet(K)
  BY <1>3, <1>4, FS_Subset
<1>6. n \in Nat
  BY <1>5, FS_CardinalityType
<1>7. PICK s \in [1..Cardinality(Kept(hits, sim)) -> Kept(hits, sim)] :
        /\ \A i, j \in DOMAIN s : i < j => Ahead(hits, sim, s[i], s[j])
        /\ new = [p \in DOMAIN s |->
                   Append(rows[s[p][2]], [frame |-> hits[s[p][1]],
                                          score |-> NewScore(hits, sim, s[p])])]
  BY DEF Merged
<1>8. DOMAIN s = 1..n
  BY <1>7
<1> QED
  BY <1>6, <1>7, <1>8

\* A kept match joins a hit to the row it may follow.
LEMMA KeptMatch ==
  ASSUME Inv, sims # <<>>, NEW sim \in Similarity,
         NEW hits \in Ranked(Searched, sim, Limit), NEW m \in Kept(hits, sim)
  PROVE  /\ m[1] \in DOMAIN hits /\ m[2] \in DOMAIN rows
         /\ m = <<m[1], m[2]>>
         /\ m \in Matches(hits)
         /\ hits[m[1]] \in Keyframe
         /\ Score(rows[m[2]]) \in Int /\ sim[hits[m[1]]] \in Int
         /\ Score(rows[m[2]]) = rows[m[2]][Len(sims)].score
<1>1. m \in Matches(hits)
  BY DEF Kept
<1>2. m[1] \in DOMAIN hits /\ m[2] \in DOMAIN rows /\ m = <<m[1], m[2]>>
  BY <1>1 DEF Matches
<1>3. hits[m[1]] \in Keyframe
  <2>1. hits \in Seq(Keyframe)
    BY RankedHits
  <2> QED
    BY <1>2, <2>1
<1>4. sim[hits[m[1]]] \in Int
  BY <1>3, TemporalAssumption
<1>5. Score(rows[m[2]]) \in Int /\ Score(rows[m[2]]) = rows[m[2]][Len(sims)].score
  <2>1. rows[m[2]] \in Seq(Entry) /\ Len(rows[m[2]]) = Len(sims)
    BY <1>2 DEF Inv, TypeOK
  <2>2. Len(sims) \in Nat \ {0}
    BY DEF Inv, TypeOK
  <2>3. rows[m[2]][Len(sims)] \in Entry
    BY <2>1, <2>2
  <2> QED
    BY <2>1, <2>3 DEF Score, Entry
<1> QED
  BY <1>1, <1>2, <1>3, <1>4, <1>5

\* Two kept matches of the same keyframe, or of the same hit, are the same one.
LEMMA KeptApart ==
  ASSUME Inv, sims # <<>>, NEW sim \in Similarity,
         NEW hits \in Ranked(Searched, sim, Limit),
         NEW m \in Kept(hits, sim), NEW n \in Kept(hits, sim),
         \/ m[2] = n[2]
         \/ hits[m[1]] = hits[n[1]]
  PROVE  m = n
<1>1. /\ m[1] \in DOMAIN hits /\ m = <<m[1], m[2]>> /\ m \in Matches(hits)
      /\ m[2] \in DOMAIN rows /\ Score(rows[m[2]]) \in Int /\ sim[hits[m[1]]] \in Int
  BY KeptMatch
<1>2. /\ n[1] \in DOMAIN hits /\ n = <<n[1], n[2]>> /\ n \in Matches(hits)
      /\ n[2] \in DOMAIN rows /\ Score(rows[n[2]]) \in Int /\ sim[hits[n[1]]] \in Int
  BY KeptMatch
<1>3. hits \in Seq(Keyframe) /\ \A i, j \in DOMAIN hits : hits[i] = hits[j] => i = j
  BY RankedHits
<1>4. m[1] \in Int /\ n[1] \in Int
  BY <1>1, <1>2, <1>3
<1>5. m[2] \in Int /\ n[2] \in Int
  BY <1>1, <1>2 DEF Inv, TypeOK
<1>6. CASE m[2] = n[2]
  <2> SUFFICES ASSUME m # n PROVE FALSE
    OBVIOUS
  <2>1. Ahead(hits, sim, m, n) /\ Ahead(hits, sim, n, m)
    BY <1>1, <1>2, <1>6 DEF Kept
  <2>2. NewScore(hits, sim, m) \in Int /\ NewScore(hits, sim, n) \in Int
    BY <1>1, <1>2 DEF NewScore
  <2> QED
    BY <2>1, <2>2, <1>4 DEF Ahead
<1>7. CASE hits[m[1]] = hits[n[1]]
  <2>1. m[1] = n[1]
    BY <1>1, <1>2, <1>3, <1>7
  <2>2. /\ m[2] \in Partners(hits[m[1]]) /\ n[2] \in Partners(hits[m[1]])
        /\ \A i \in Partners(hits[m[1]]) :
             \/ Score(rows[m[2]]) > Score(rows[i])
             \/ Score(rows[m[2]]) = Score(rows[i]) /\ m[2] <= i
        /\ \A i \in Partners(hits[m[1]]) :
             \/ Score(rows[n[2]]) > Score(rows[i])
             \/ Score(rows[n[2]]) = Score(rows[i]) /\ n[2] <= i
    BY <1>1, <1>2, <2>1 DEF Matches
  <2>3. m[2] = n[2]
    BY <2>2, <1>1, <1>2, <1>5
  <2> QED
    BY <2>1, <2>3, <1>1, <1>2
<1> QED
  BY <1>6, <1>7

-----------------------------------------------------------------------------
LEMMA NextSceneInv == Inv /\ NextScene => Inv'
<1> SUFFICES ASSUME Inv, NextScene PROVE Inv'
  OBVIOUS
<1>1. PICK sim \in Similarity : \E hits \in Ranked(Searched, sim, Limit) :
        rows' \in Merged(hits, sim) /\ sims' = Append(sims, sim)
  BY DEF NextScene
<1>2. PICK hits \in Ranked(Searched, sim, Limit) :
        rows' \in Merged(hits, sim) /\ sims' = Append(sims, sim)
  BY <1>1
<1> DEFINE c == Len(sims)
<1>3. sims # <<>> /\ c < Segments(request.ends) /\ pc' = pc /\ request' = request
  BY DEF NextScene
<1>4. sims \in Seq(Similarity) /\ c \in Nat \ {0}
  BY <1>3 DEF Inv, TypeOK
<1>5. /\ sims' \in Seq(Similarity) /\ Len(sims') = c + 1 /\ sims'[c + 1] = sim
      /\ \A d \in 1..c : sims'[d] = sims[d]
  BY <1>2, <1>4
<1>6. PICK n \in Nat : \E s \in [1..n -> Kept(hits, sim)] :
        /\ rows' = [p \in 1..n |->
                     Append(rows[s[p][2]], [frame |-> hits[s[p][1]],
                                            score |-> NewScore(hits, sim, s[p])])]
        /\ \A p, q \in 1..n : p < q => Ahead(hits, sim, s[p], s[q])
  BY <1>2, <1>3, MergedRows
<1>7. PICK s \in [1..n -> Kept(hits, sim)] :
        /\ rows' = [p \in 1..n |->
                     Append(rows[s[p][2]], [frame |-> hits[s[p][1]],
                                            score |-> NewScore(hits, sim, s[p])])]
        /\ \A p, q \in 1..n : p < q => Ahead(hits, sim, s[p], s[q])
  BY <1>6
<1>8. DOMAIN rows' = 1..n
  BY <1>7
<1>9. ASSUME NEW p \in 1..n
      PROVE  /\ s[p][2] \in DOMAIN rows /\ hits[s[p][1]] \in Keyframe
             /\ rows'[p] \in Seq(Entry) /\ Len(rows'[p]) = c + 1
             /\ \A d \in 1..c : rows'[p][d] = rows[s[p][2]][d]
             /\ rows'[p][c + 1].frame = hits[s[p][1]]
             /\ rows'[p][c + 1].score = sim[hits[s[p][1]]] + rows[s[p][2]][c].score
  <2> DEFINE e == [frame |-> hits[s[p][1]], score |-> NewScore(hits, sim, s[p])]
  <2>1. s[p] \in Kept(hits, sim)
    OBVIOUS
  <2>2. /\ s[p][2] \in DOMAIN rows /\ hits[s[p][1]] \in Keyframe
        /\ Score(rows[s[p][2]]) \in Int /\ sim[hits[s[p][1]]] \in Int
        /\ Score(rows[s[p][2]]) = rows[s[p][2]][c].score
    BY <2>1, <1>3, KeptMatch
  <2>3. NewScore(hits, sim, s[p]) \in Int
    BY <2>2 DEF NewScore
  <2>4. e \in Entry /\ e.frame = hits[s[p][1]]
        /\ e.score = sim[hits[s[p][1]]] + rows[s[p][2]][c].score
    BY <2>2, <2>3 DEF Entry, NewScore
  <2>5. rows[s[p][2]] \in Seq(Entry) /\ Len(rows[s[p][2]]) = c
    BY <2>2 DEF Inv, TypeOK
  <2>6. rows'[p] = Append(rows[s[p][2]], e)
    BY <1>7
  <2> HIDE DEF e
  <2>7. /\ Append(rows[s[p][2]], e) \in Seq(Entry)
        /\ Len(Append(rows[s[p][2]], e)) = c + 1
        /\ \A d \in 1..c : Append(rows[s[p][2]], e)[d] = rows[s[p][2]][d]
        /\ Append(rows[s[p][2]], e)[c + 1] = e
    BY <2>4, <2>5
  <2> QED
    BY <2>2, <2>4, <2>6, <2>7
<1>10. TypeOK'
  <2>1. rows' \in [1..n -> Seq(Entry)]
    <3>1. rows' = [p \in 1..n |-> rows'[p]]
      BY <1>7
    <3> QED
      BY <3>1, <1>9
  <2>2. rows' \in Seq(Seq(Entry))
    BY <2>1
  <2> QED
    BY <2>2, <1>3, <1>5, <1>8, <1>9 DEF TypeOK, Inv
<1>11. ScenesInRange'
  <2>1. Segments(request.ends) \in Nat
    BY SegmentsNat DEF Inv, TypeOK
  <2> QED
    BY <2>1, <1>3, <1>4, <1>5 DEF ScenesInRange
<1>12. MomentsAreDistinct'
  <2>1. SUFFICES ASSUME NEW p \in 1..n, NEW q \in 1..n, NEW d \in 1..(c + 1),
                        rows'[p][d].frame = rows'[q][d].frame
                 PROVE  p = q
    BY <1>5, <1>8 DEF MomentsAreDistinct
  <2>2. s[p] \in Kept(hits, sim) /\ s[q] \in Kept(hits, sim)
    OBVIOUS
  <2>3. s[p][2] = s[q][2] \/ hits[s[p][1]] = hits[s[q][1]]
    <3>1. CASE d = c + 1
      BY <3>1, <2>1, <1>9
    <3>2. CASE d # c + 1
      <4>1. d \in 1..c
        BY <3>2, <1>4
      <4>2. rows[s[p][2]][d].frame = rows[s[q][2]][d].frame
        BY <4>1, <2>1, <1>9
      <4>3. s[p][2] \in DOMAIN rows /\ s[q][2] \in DOMAIN rows
        BY <1>9
      <4> QED
        BY <4>1, <4>2, <4>3 DEF Inv, MomentsAreDistinct
    <3> QED
      BY <3>1, <3>2
  <2>4. s[p] = s[q]
    BY <2>2, <2>3, <1>3, KeptApart
  <2>5. ~ Ahead(hits, sim, s[p], s[p])
    <3>1. NewScore(hits, sim, s[p]) \in Int
      <4>1. Score(rows[s[p][2]]) \in Int /\ sim[hits[s[p][1]]] \in Int
        BY <2>2, <1>3, KeptMatch
      <4> QED
        BY <4>1 DEF NewScore
    <3>2. s[p][1] \in Int
      <4>1. s[p][1] \in DOMAIN hits
        BY <2>2, <1>3, KeptMatch
      <4>2. hits \in Seq(Keyframe)
        BY RankedHits
      <4> QED
        BY <4>1, <4>2
    <3> QED
      BY <3>1, <3>2 DEF Ahead
  <2>6. ~ (p < q) /\ ~ (q < p)
    BY <2>4, <2>5, <1>7
  <2> QED
    BY <2>6
<1>13. ScoresAreSums'
  <2>1. SUFFICES ASSUME NEW p \in 1..n, NEW d \in 1..(c + 1)
                 PROVE  rows'[p][d].score = sims'[d][rows'[p][d].frame]
                          + (IF d = 1 THEN 0 ELSE rows'[p][d - 1].score)
    BY <1>5, <1>8 DEF ScoresAreSums
  <2>2. CASE d = c + 1
    <3>1. d # 1 /\ d - 1 = c /\ c \in 1..c
      BY <2>2, <1>4
    <3>2. rows'[p][c] = rows[s[p][2]][c]
      BY <3>1, <1>9
    <3> QED
      BY <2>2, <3>1, <3>2, <1>5, <1>9
  <2>3. CASE d # c + 1
    <3>1. d \in 1..c
      BY <2>3, <1>4
    <3>2. rows'[p][d] = rows[s[p][2]][d] /\ sims'[d] = sims[d]
      BY <3>1, <1>5, <1>9
    <3>3. d # 1 => rows'[p][d - 1] = rows[s[p][2]][d - 1]
      <4>1. d # 1 => d - 1 \in 1..c
        BY <3>1, <1>4
      <4> QED
        BY <4>1, <1>9
    <3>4. rows[s[p][2]][d].score = sims[d][rows[s[p][2]][d].frame]
            + (IF d = 1 THEN 0 ELSE rows[s[p][2]][d - 1].score)
      <4>1. s[p][2] \in DOMAIN rows
        BY <1>9
      <4> QED
        BY <4>1, <3>1 DEF Inv, ScoresAreSums
    <3> QED
      BY <3>2, <3>3, <3>4
  <2> QED
    BY <2>2, <2>3
<1> QED
  BY <1>10, <1>11, <1>12, <1>13 DEF Inv

LEMMA AnswerInv == Inv /\ Answer => Inv'
<1> SUFFICES ASSUME Inv, Answer PROVE Inv'
  OBVIOUS
<1>1. UNCHANGED <<request, sims, rows>> /\ pc' \in {"failed", "answered"}
  BY DEF Answer
<1> QED
  BY <1>1 DEF Inv, TypeOK, ScenesInRange, MomentsAreDistinct, ScoresAreSums

-----------------------------------------------------------------------------
LEMMA StepInv == Inv /\ [Next]_vars => Inv'
<1> SUFFICES ASSUME Inv, [Next]_vars PROVE Inv'
  OBVIOUS
<1>1. CASE UNCHANGED vars
  BY <1>1 DEF vars, Inv, TypeOK, ScenesInRange, MomentsAreDistinct, ScoresAreSums
<1> QED
  BY <1>1, AskInv, FirstSceneInv, NextSceneInv, AnswerInv DEF Next

\* Rows and similarities have their types, and each row has one keyframe for
\* each scene searched.
THEOREM TemporalTypes == Spec => []TypeOK
<1>1. Inv => TypeOK
  BY DEF Inv
<1> QED
  BY <1>1, InitInv, StepInv, PTL DEF Spec

\* merge_scores never lets two rows share the keyframe of a scene, for any
\* number of scenes, keyframes, limits and similarities.
THEOREM MomentsStayDistinct == Spec => []MomentsAreDistinct
<1>1. Inv => MomentsAreDistinct
  BY DEF Inv
<1> QED
  BY <1>1, InitInv, StepInv, PTL DEF Spec

\* The score a row is sorted by is the sum over its scenes.
THEOREM RowsAddUp == Spec => []ScoresAddUp
<1>1. Inv => ScoresAddUp
  BY DEF Inv, ScoresAddUp
<1> QED
  BY <1>1, InitInv, StepInv, PTL DEF Spec
-----------------------------------------------------------------------------
(***************************************************************************)
(* The best pair of a search of two scenes.                                *)
(***************************************************************************)
LEMMA LeastIs ==
  ASSUME NEW S \in SUBSET Nat, S # {}
  PROVE  Least(S) \in S /\ \A m \in S : Least(S) <= m
<1>1. PICK x \in S : \A y \in S : ~(<<y, x>> \in OpToRel(<, Nat))
  BY NatLessThanWellFounded, WFMin
<1>2. ASSUME NEW y \in S
      PROVE  x <= y
  <2>1. <<y, x>> \in Nat \X Nat /\ x \in Nat /\ y \in Nat
    OBVIOUS
  <2>2. ~(y < x)
    BY <1>1, <2>1, ZenonT(30) DEF OpToRel
  <2> QED
    BY <2>1, <2>2
<1> QED
  BY <1>2 DEF Least

\* A keyframe within the window is among what _get_frames returns.
LEMMA InReach ==
  ASSUME NEW v \in Video, NEW first \in Nat, NEW last \in Nat,
         NEW n \in Frames[v], first <= n, n <= last
  PROVE  n \in Hits(Frames[v], first, last)
<1> DEFINE F == Frames[v]
           D == {MaxFrame - x : x \in F}
           S == {x \in F : x >= first} \cup {Greatest(F)}
           T == {x \in F : x > last} \cup {Greatest(F)}
<1>1. MaxFrame \in Nat /\ F \subseteq 0..MaxFrame
  <2>1. MaxFrame \in Nat
    BY DEF MaxFrame
  <2>2. F \subseteq 0..MaxFrame
    BY FramesAssumption
  <2> QED
    BY <2>1, <2>2
<1>2. \A x \in F : x \in Nat /\ MaxFrame - x \in Nat
  BY <1>1
<1>3. first # NoFrame /\ last # NoFrame
  BY FramesAssumption
<1>4. Greatest(F) \in F /\ \A m \in F : m <= Greatest(F)
  <2>1. D \in SUBSET Nat /\ D # {}
    BY <1>2
  <2>2. Least(D) \in D /\ \A d \in D : Least(D) <= d
    BY <2>1, LeastIs
  <2>3. PICK g \in F : \A m \in F : MaxFrame - g <= MaxFrame - m
    BY <2>2
  <2>4. \A m \in F : m <= g
    BY <1>1, <1>2, <2>3
  <2> QED
    BY <2>4 DEF Greatest
<1> HIDE DEF F
<1>5. S \in SUBSET Nat /\ n \in S
  BY <1>2, <1>4 DEF F
<1>6. T \in SUBSET Nat /\ T # {} /\ \A x \in T : n <= x
  BY <1>2, <1>4 DEF F
<1> HIDE DEF S, T
<1>7. Start(F, first) <= n
  <2>1. Least(S) <= n
    BY <1>5, LeastIs
  <2> QED
    BY <1>3, <2>1 DEF Start, S
<1>8. n <= End(F, last)
  <2>1. n <= Least(T)
    BY <1>6, LeastIs
  <2> QED
    BY <1>3, <2>1 DEF End, T
<1> QED
  BY <1>7, <1>8 DEF Hits, F

LEMMA Element ==
  ASSUME NEW S, NEW q \in Seq(S), NEW d \in 1..Len(q)
  PROVE  q[d] \in S
OBVIOUS

LEMMA Appended ==
  ASSUME NEW S, NEW q \in Seq(S), NEW e \in S
  PROVE  /\ Append(q, e)[Len(q) + 1] = e
         /\ \A d \in 1..Len(q) : Append(q, e)[d] = q[d]
OBVIOUS

\* A search of two scenes with room for every keyframe.
TwoScenes == Segments(request.ends) = 2 /\ request.k >= Cardinality(Keyframe)

\* After its first scene every keyframe that passes is a row, best first.
FirstRows ==
  (TwoScenes /\ Len(sims) = 1) =>
    /\ \A a \in Passing(request) : \E i \in DOMAIN rows :
         rows[i] = <<[frame |-> a, score |-> sims[1][a]]>>
    /\ \A i, j \in DOMAIN rows : i < j => Score(rows[i]) >= Score(rows[j])

\* After its second one the first row is as good as any pair.
Bests(found) ==
  \A a \in Passing(request) : \A b \in Keyframe :
    (Linked(a, b) /\ b # a /\ sims[1][a] > 0) =>
      (found # <<>> /\ Score(found[1]) >= sims[1][a] + sims[2][b])

BestInv ==
  /\ FirstRows
  /\ (TwoScenes /\ Len(sims) = 2) => Bests(rows)
  /\ pc = "answered" => Len(sims) = Segments(request.ends)

\* With room for all, all that is searched is found, best first.
LEMMA RankedAll ==
  ASSUME Inv, NEW sim \in Similarity, NEW hits \in Ranked(Searched, sim, Limit)
  PROVE  /\ \A i, j \in DOMAIN hits : i < j => sim[hits[i]] >= sim[hits[j]]
         /\ (TwoScenes /\ Len(sims) \in {0, 1}) => \A f \in Searched : \E i \in DOMAIN hits : hits[i] = f
<1>1. \A i, j \in DOMAIN hits : i < j => sim[hits[i]] >= sim[hits[j]]
  BY DEF Ranked
<1>2. ASSUME TwoScenes, Len(sims) \in {0, 1}
      PROVE  \A f \in Searched : \E i \in DOMAIN hits : hits[i] = f
  <2> DEFINE c == Cardinality(Searched)
  <2>1. IsFiniteSet(Searched) /\ c <= Cardinality(Keyframe)
    BY SearchedKeyframes, KeyframesFinite, FS_Subset DEF Inv
  <2>2. c \in Nat /\ Cardinality(Keyframe) \in Nat
    BY <2>1, KeyframesFinite, FS_CardinalityType
  <2>3. request.k \in Nat
    BY TemporalAssumption DEF Inv, TypeOK
  <2>4. ~(Limit < c)
    <3>1. CASE Len(sims) = 0
      BY <1>2, <2>1, <2>2, <2>3, <3>1 DEF Limit, TwoScenes
    <3>2. CASE Len(sims) = 1
      BY <1>2, <2>1, <2>2, <2>3, <3>2 DEF Limit, TwoScenes
    <3> QED
      BY <1>2, <3>1, <3>2
  <2>5. hits \in [1..c -> Searched]
    BY <2>4 DEF Ranked
  <2>6. \A i, j \in DOMAIN hits : hits[i] = hits[j] => i = j
    BY RankedHits
  <2> HIDE DEF c
  <2>7. hits \in Injection(1..c, Searched)
    BY <2>5, <2>6 DEF Injection, IsInjective
  <2>8. Cardinality(1..c) = c
    <3>1. 1 \in Int /\ c \in Int
      BY <2>2
    <3>2. Cardinality(1..c) = IF 1 > c THEN 0 ELSE c - 1 + 1
      BY <3>1, FS_Interval
    <3> QED
      BY <2>2, <3>2
  <2>9. hits \in Surjection(1..c, Searched)
    BY <2>1, <2>7, <2>8, FS_Injection DEF c
  <2> QED
    BY <2>5, <2>9 DEF Surjection
<1> QED
  BY <1>1, <1>2

\* The first of the merged rows is as good as any match that was kept.
LEMMA MergedBest ==
  ASSUME Inv, sims # <<>>, NEW sim \in Similarity,
         NEW hits \in Ranked(Searched, sim, Limit), NEW new \in Merged(hits, sim),
         NEW m \in Kept(hits, sim)
  PROVE  /\ new # <<>> /\ Score(new[1]) >= NewScore(hits, sim, m)
         /\ Score(new[1]) \in Int /\ NewScore(hits, sim, m) \in Int
<1> DEFINE K == Kept(hits, sim)
           n == Cardinality(K)
<1>1. PICK s \in [1..Cardinality(Kept(hits, sim)) -> Kept(hits, sim)] :
        /\ \A i, j \in DOMAIN s : i < j => Ahead(hits, sim, s[i], s[j])
        /\ new = [p \in DOMAIN s |->
                   Append(rows[s[p][2]], [frame |-> hits[s[p][1]],
                                          score |-> NewScore(hits, sim, s[p])])]
  BY DEF Merged
<1>2. IsFiniteSet(K) /\ n \in Nat
  <2>1. hits \in Seq(Keyframe) /\ rows \in Seq(Seq(Entry))
    BY RankedHits DEF Inv, TypeOK
  <2>2. DOMAIN hits = 1..Len(hits) /\ Len(hits) \in Int /\ DOMAIN rows = 1..Len(rows)
        /\ Len(rows) \in Int /\ 1 \in Int
    BY <2>1
  <2>3. IsFiniteSet(DOMAIN hits) /\ IsFiniteSet(DOMAIN rows)
    BY <2>2, FS_Interval
  <2>4. IsFiniteSet((DOMAIN hits) \X (DOMAIN rows))
    BY <2>3, FS_Product
  <2>5. K \subseteq (DOMAIN hits) \X (DOMAIN rows)
    BY DEF Kept, Matches
  <2>6. IsFiniteSet(K)
    BY <2>4, <2>5, FS_Subset
  <2> QED
    BY <2>6, FS_CardinalityType
<1>3. ASSUME NEW k \in Kept(hits, sim)
      PROVE  /\ NewScore(hits, sim, k) \in Int /\ k[1] \in Int /\ ~Ahead(hits, sim, k, k)
             /\ rows[k[2]] \in Seq(Entry)
  <2>1. k[1] \in DOMAIN hits /\ k[2] \in DOMAIN rows /\ Score(rows[k[2]]) \in Int /\ sim[hits[k[1]]] \in Int
    BY KeptMatch
  <2>2. NewScore(hits, sim, k) \in Int
    BY <2>1 DEF NewScore
  <2>3. k[1] \in Int
    BY <2>1, RankedHits
  <2>4. rows[k[2]] \in Seq(Entry)
    BY <2>1 DEF Inv, TypeOK
  <2> QED
    BY <2>2, <2>3, <2>4 DEF Ahead
<1>4. s \in [1..n -> K] /\ DOMAIN s = 1..n
  BY <1>1
<1>5. \A i, j \in 1..n : s[i] = s[j] => i = j
  <2> SUFFICES ASSUME NEW i \in 1..n, NEW j \in 1..n, s[i] = s[j] PROVE i = j
    OBVIOUS
  <2>1. ~Ahead(hits, sim, s[i], s[i]) /\ i \in Int /\ j \in Int
    BY <1>3, <1>4
  <2>2. ~(i < j) /\ ~(j < i)
    BY <1>1, <1>4, <2>1
  <2> QED
    BY <2>1, <2>2
<1> HIDE DEF K
<1>6. s \in Injection(1..n, K)
  BY <1>4, <1>5 DEF Injection, IsInjective
<1>7. Cardinality(1..n) = n
  <2>1. 1 \in Int /\ n \in Int
    BY <1>2
  <2>2. Cardinality(1..n) = IF 1 > n THEN 0 ELSE n - 1 + 1
    BY <2>1, FS_Interval
  <2> QED
    BY <1>2, <2>2
<1>8. s \in Surjection(1..n, K)
  BY <1>2, <1>6, <1>7, FS_Injection
<1>9. PICK p \in 1..n : s[p] = m
  BY <1>8 DEF Surjection, K
<1>10. 1 \in 1..n /\ p \in Nat /\ p >= 1
  BY <1>2, <1>9
<1>11. DOMAIN new = 1..n
       /\ new[1] = Append(rows[s[1][2]], [frame |-> hits[s[1][1]], score |-> NewScore(hits, sim, s[1])])
  BY <1>1, <1>4, <1>10
<1>12. new # <<>>
  <2>1. 1 \in DOMAIN new
    BY <1>10, <1>11
  <2>2. 1 \notin DOMAIN <<>>
    OBVIOUS
  <2> QED
    BY <2>1, <2>2
<1>13. s[1] \in Kept(hits, sim)
  BY <1>4, <1>10 DEF K
<1>14. Score(new[1]) = NewScore(hits, sim, s[1])
  <2> DEFINE e == [frame |-> hits[s[1][1]], score |-> NewScore(hits, sim, s[1])]
             r == rows[s[1][2]]
  <2>1. r \in Seq(Entry) /\ e.score = NewScore(hits, sim, s[1]) /\ e \in Entry
    <3>1. NewScore(hits, sim, s[1]) \in Int /\ rows[s[1][2]] \in Seq(Entry)
      BY <1>3, <1>13
    <3>2. hits[s[1][1]] \in Keyframe
      BY <1>13, KeptMatch
    <3> QED
      BY <3>1, <3>2 DEF Entry
  <2>2. new[1] = Append(r, e)
    BY <1>11
  <2> HIDE DEF r, e
  <2>3. Append(r, e)[Len(Append(r, e))] = e
    BY <2>1
  <2> QED
    BY <2>1, <2>2, <2>3 DEF Score
<1>15. NewScore(hits, sim, s[1]) >= NewScore(hits, sim, m)
  <2>1. NewScore(hits, sim, s[1]) \in Int /\ NewScore(hits, sim, m) \in Int
    BY <1>3, <1>13
  <2>2. CASE p = 1
    BY <1>9, <2>1, <2>2
  <2>3. CASE p # 1
    <3>1. Ahead(hits, sim, s[1], m)
      BY <1>1, <1>4, <1>9, <1>10, <2>3
    <3> QED
      BY <2>1, <3>1 DEF Ahead
  <2> QED
    BY <2>2, <2>3
<1> QED
  BY <1>3, <1>12, <1>13, <1>14, <1>15

LEMMA FirstSceneBest == Inv /\ FirstScene => BestInv'
<1> SUFFICES ASSUME Inv, FirstScene PROVE BestInv'
  OBVIOUS
<1>1. PICK sim \in Similarity : \E hits \in Ranked(Searched, sim, Limit) :
        /\ rows' = [i \in DOMAIN hits |-> <<[frame |-> hits[i], score |-> sim[hits[i]]]>>]
        /\ sims' = <<sim>>
  BY DEF FirstScene
<1>2. PICK hits \in Ranked(Searched, sim, Limit) :
        /\ rows' = [i \in DOMAIN hits |-> <<[frame |-> hits[i], score |-> sim[hits[i]]]>>]
        /\ sims' = <<sim>>
  BY <1>1
<1>3. sims = <<>> /\ Len(sims) = 0 /\ request' = request /\ pc' = "searching"
  BY DEF FirstScene
<1>4. Len(sims') = 1 /\ sims'[1] = sim /\ DOMAIN rows' = DOMAIN hits
  BY <1>2
<1>5. Searched = Passing(request)
  BY <1>3 DEF Searched
<1>6. \A i, j \in DOMAIN hits : i < j => sim[hits[i]] >= sim[hits[j]]
  BY RankedAll
<1>7. ASSUME NEW i \in DOMAIN hits
      PROVE  Score(rows'[i]) = sim[hits[i]]
  <2> DEFINE e == [frame |-> hits[i], score |-> sim[hits[i]]]
  <2>1. rows'[i] = <<e>> /\ e.score = sim[hits[i]]
    BY <1>2
  <2> HIDE DEF e
  <2>2. <<e>>[Len(<<e>>)] = e
    OBVIOUS
  <2> QED
    BY <2>1, <2>2 DEF Score
<1>8. FirstRows'
  <2>1. \A i, j \in DOMAIN rows' : i < j => Score(rows'[i]) >= Score(rows'[j])
    BY <1>4, <1>6, <1>7
  <2>2. ASSUME TwoScenes', NEW a \in Passing(request)
        PROVE  \E i \in DOMAIN rows' : rows'[i] = <<[frame |-> a, score |-> sims'[1][a]]>>
    <3>1. TwoScenes
      BY <1>3, <2>2 DEF TwoScenes
    <3>2. PICK i \in DOMAIN hits : hits[i] = a
      BY <1>3, <1>5, <3>1, RankedAll
    <3>3. rows'[i] = <<[frame |-> a, score |-> sim[a]]>>
      BY <1>2, <3>2
    <3> QED
      BY <1>4, <3>3
  <2>3. Passing(request') = Passing(request)
    BY <1>3
  <2> QED
    BY <2>1, <2>2, <2>3 DEF FirstRows
<1> QED
  BY <1>3, <1>4, <1>8 DEF BestInv

\* A pair that the second scene completes: one of the matches that are kept is
\* at least as good.
LEMMA PairIsKept ==
  ASSUME Inv, FirstRows, TwoScenes, Len(sims) = 1, NEW sim \in Similarity,
         NEW hits \in Ranked(Searched, sim, Limit),
         NEW a \in Passing(request), NEW b \in Keyframe,
         Linked(a, b), b # a, sims[1][a] > 0
  PROVE  \E m \in Kept(hits, sim) : NewScore(hits, sim, m) >= sims[1][a] + sim[b]
<1>1. sims # <<>> /\ Searched = Following
  <2>1. sims # <<>>
    OBVIOUS
  <2> QED
    BY <2>1 DEF Searched
<1>2. a \in Keyframe
  BY DEF Passing
<1>3. PICK i \in DOMAIN rows : rows[i] = <<[frame |-> a, score |-> sims[1][a]]>>
  BY DEF FirstRows
<1>4. Moment(rows[i]) = a /\ Score(rows[i]) = sims[1][a]
  <2> DEFINE e == [frame |-> a, score |-> sims[1][a]]
  <2>1. rows[i] = <<e>> /\ e.frame = a /\ e.score = sims[1][a]
    BY <1>3
  <2> HIDE DEF e
  <2>2. <<e>>[Len(<<e>>)] = e
    OBVIOUS
  <2> QED
    BY <2>1, <2>2 DEF Moment, Score
<1>5. DOMAIN rows = 1..Len(rows) /\ Len(rows) \in Nat
  BY DEF Inv, TypeOK
<1>6. ASSUME NEW k \in DOMAIN rows
      PROVE  /\ Score(rows[k]) \in Int /\ Moment(rows[k]) = rows[k][1].frame
  <2>1. rows[k] \in Seq(Entry) /\ Len(rows[k]) = 1
    BY DEF Inv, TypeOK
  <2>2. rows[k][1] \in Entry
    <3>1. 1 \in 1..Len(rows[k])
      BY <2>1
    <3> QED
      BY ONLY <2>1, <3>1, Element
  <2> QED
    BY <2>1, <2>2 DEF Moment, Score, Entry
<1>7. PICK j \in DOMAIN hits : hits[j] = b
  <2>1. PICK v \in Video : a \in KeyframesOf(v)
    BY <1>2 DEF Keyframe
  <2>2. PICK x \in Frames[v] : a = <<v, x>>
    BY <2>1 DEF KeyframesOf
  <2>3. PICK w \in Video : b \in KeyframesOf(w)
    BY DEF Keyframe
  <2>4. PICK y \in Frames[w] : b = <<w, y>>
    BY <2>3 DEF KeyframesOf
  <2>5. x \in Nat /\ y \in Nat
    <3>1. Frames[v] \subseteq 0..MaxFrame /\ Frames[w] \subseteq 0..MaxFrame
      BY FramesAssumption
    <3> QED
      BY <3>1
  <2>6. v = w /\ y - x >= 0 /\ y - x <= Gap /\ x # y
    BY <2>2, <2>4 DEF Linked
  <2>7. x + 1 \in Nat /\ x + Gap \in Nat /\ x + 1 <= y /\ y <= x + Gap
    BY <2>5, <2>6 DEF Gap
  <2>8. y \in Hits(Frames[v], x + 1, x + Gap)
    BY <2>4, <2>6, <2>7, InReach
  <2>9. b \in {<<Moment(rows[i])[1], n>> :
                n \in Hits(Frames[Moment(rows[i])[1]], Moment(rows[i])[2] + 1, Moment(rows[i])[2] + Gap)}
    BY <1>4, <2>2, <2>4, <2>6, <2>8
  <2>10. b \in Following
    BY <2>9 DEF Following
  <2> QED
    BY <1>1, <2>10, RankedAll
<1> DEFINE P == Partners(b)
           i0 == Least(P)
<1>8. i \in P
  BY <1>4 DEF Partners
<1>9. i0 \in P /\ \A k \in P : i0 <= k
  <2>1. P \in SUBSET Nat /\ P # {}
    BY <1>5, <1>8 DEF Partners
  <2> HIDE DEF P
  <2> QED
    BY <2>1, LeastIs
<1>10. i0 \in DOMAIN rows /\ P \subseteq DOMAIN rows
  BY <1>9 DEF Partners
<1> HIDE DEF P, i0
<1>11. \A k \in P : Score(rows[i0]) >= Score(rows[k])
  <2> SUFFICES ASSUME NEW k \in P PROVE Score(rows[i0]) >= Score(rows[k])
    OBVIOUS
  <2>1. k \in DOMAIN rows /\ i0 <= k /\ k \in Int /\ i0 \in Int /\ Score(rows[k]) \in Int
    BY <1>5, <1>6, <1>9, <1>10
  <2>2. i0 < k => Score(rows[i0]) >= Score(rows[k])
    BY <1>10, <2>1 DEF FirstRows
  <2>3. i0 = k => Score(rows[i0]) >= Score(rows[k])
    BY <2>1
  <2> QED
    BY <2>1, <2>2, <2>3
<1> DEFINE J == {h \in DOMAIN hits : <<h, i0>> \in Matches(hits)}
           j0 == Least(J)
           m == <<j0, i0>>
<1>12. DOMAIN hits \subseteq Nat /\ \A h \in DOMAIN hits : hits[h] \in Keyframe
  <2>1. hits \in Seq(Keyframe)
    BY RankedHits
  <2> QED
    BY <2>1
<1>13. j \in J
  <2>1. \A k \in P : \/ Score(rows[i0]) > Score(rows[k])
                     \/ Score(rows[i0]) = Score(rows[k]) /\ i0 <= k
    <3>1. \A k \in P : Score(rows[i0]) \in Int /\ Score(rows[k]) \in Int
      BY <1>6, <1>10
    <3> QED
      BY <1>9, <1>11, <3>1
  <2> QED
    BY <1>7, <1>9, <1>10, <2>1 DEF Matches, P
<1>14. j0 \in J /\ \A h \in J : j0 <= h
  <2>1. J \in SUBSET Nat /\ J # {}
    BY <1>12, <1>13
  <2> HIDE DEF J
  <2> QED
    BY <2>1, LeastIs
<1>15. j0 \in DOMAIN hits /\ m \in Matches(hits)
  BY <1>14
<1> HIDE DEF j0
<1>16. \A h \in J : sim[hits[h]] \in Int
  BY <1>12, TemporalAssumption
<1>17. \A h \in J : sim[hits[j0]] >= sim[hits[h]]
  <2> SUFFICES ASSUME NEW h \in J PROVE sim[hits[j0]] >= sim[hits[h]]
    OBVIOUS
  <2>1. h \in DOMAIN hits /\ h \in Int /\ j0 \in Int /\ j0 <= h /\ sim[hits[h]] \in Int
    BY <1>12, <1>14, <1>15, <1>16
  <2>2. j0 < h => sim[hits[j0]] >= sim[hits[h]]
    BY <1>15, <2>1, RankedAll
  <2> QED
    BY <2>1, <2>2
<1>18. m \in Kept(hits, sim)
  <2> SUFFICES ASSUME NEW n \in Matches(hits) \ {m}, Moment(rows[n[2]]) = Moment(rows[m[2]])
               PROVE  Ahead(hits, sim, m, n)
    BY <1>15 DEF Kept
  <2>1. n[1] \in DOMAIN hits /\ n[2] \in DOMAIN rows /\ n = <<n[1], n[2]>>
    BY DEF Matches
  <2>2. n[2] = i0
    <3>1. rows[n[2]][1].frame = rows[i0][1].frame
      BY <1>6, <1>10, <2>1
    <3>2. 1 \in 1..Len(sims)
      OBVIOUS
    <3> QED
      BY <1>10, <2>1, <3>1, <3>2 DEF Inv, MomentsAreDistinct
  <2>3. n[1] \in J /\ n[1] # j0
    BY <2>1, <2>2
  <2>4. j0 < n[1]
    <3>1. j0 <= n[1] /\ j0 \in Int /\ n[1] \in Int
      BY <1>12, <1>14, <1>15, <2>1, <2>3
    <3> QED
      BY <2>3, <3>1
  <2>5. sim[hits[j0]] >= sim[hits[n[1]]] /\ sim[hits[j0]] \in Int /\ sim[hits[n[1]]] \in Int
    BY <1>14, <1>16, <1>17, <2>3
  <2>6. Score(rows[i0]) \in Int
    BY <1>6, <1>10
  <2>7. NewScore(hits, sim, m) = sim[hits[j0]] + Score(rows[i0])
        /\ NewScore(hits, sim, n) = sim[hits[n[1]]] + Score(rows[i0])
    BY <2>2 DEF NewScore
  <2>8. m[1] = j0
    OBVIOUS
  <2> HIDE DEF m
  <2> QED
    BY <2>4, <2>5, <2>6, <2>7, <2>8 DEF Ahead
<1>19. NewScore(hits, sim, m) >= sims[1][a] + sim[b]
  <2>1. sim[hits[j0]] >= sim[b] /\ sim[hits[j0]] \in Int /\ sim[b] \in Int
    BY <1>7, <1>13, <1>14, <1>16, <1>17
  <2>2. Score(rows[i0]) >= sims[1][a] /\ Score(rows[i0]) \in Int /\ sims[1][a] \in Int
    BY <1>4, <1>6, <1>8, <1>10, <1>11
  <2>3. NewScore(hits, sim, m) = sim[hits[j0]] + Score(rows[i0])
    BY DEF NewScore
  <2> HIDE DEF m
  <2> QED
    BY <2>1, <2>2, <2>3
<1> QED
  BY <1>18, <1>19

LEMMA NextSceneBest == Inv /\ BestInv /\ NextScene => BestInv'
<1> SUFFICES ASSUME Inv, BestInv, NextScene PROVE BestInv'
  OBVIOUS
<1>1. PICK sim \in Similarity : \E hits \in Ranked(Searched, sim, Limit) :
        rows' \in Merged(hits, sim) /\ sims' = Append(sims, sim)
  BY DEF NextScene
<1>2. PICK hits \in Ranked(Searched, sim, Limit) :
        rows' \in Merged(hits, sim) /\ sims' = Append(sims, sim)
  BY <1>1
<1>3. sims # <<>> /\ sims \in Seq(Similarity) /\ request' = request /\ pc' = "searching"
  BY DEF NextScene, Inv, TypeOK
<1>4. Len(sims) \in Nat \ {0} /\ Len(sims') = Len(sims) + 1
  BY <1>2, <1>3
<1>5. ASSUME TwoScenes', Len(sims') = 2
      PROVE  Bests(rows)'
  <2>1. TwoScenes /\ Len(sims) = 1
    <3>1. TwoScenes
      BY <1>3, <1>5 DEF TwoScenes
    <3>2. Len(sims) = 1
      <4> DEFINE c == Len(sims)
                 d == Len(sims')
      <4>1. c \in Nat /\ d = c + 1 /\ d = 2
        BY <1>4, <1>5
      <4> HIDE DEF c, d
      <4>2. c = 1
        BY <4>1
      <4> QED
        BY <4>2 DEF c
    <3> QED
      BY <3>1, <3>2
  <2>2. sims'[1] = sims[1] /\ sims'[2] = sim
    <3> DEFINE c == Len(sims)
    <3>1. c \in Nat \ {0} /\ c = 1
      BY <1>4, <2>1
    <3>2. sims'[c + 1] = sim /\ \A d \in 1..c : sims'[d] = sims[d]
      <4>1. sims' = Append(sims, sim)
        BY <1>2
      <4> QED
        BY <1>3, <4>1, Appended
    <3> HIDE DEF c
    <3>3. c + 1 = 2 /\ 1 \in 1..c
      BY <3>1
    <3> QED
      BY <3>2, <3>3
  <2>3. SUFFICES ASSUME NEW a \in Passing(request), NEW b \in Keyframe,
                        Linked(a, b), b # a, sims[1][a] > 0
                 PROVE  rows' # <<>> /\ Score(rows'[1]) >= sims[1][a] + sim[b]
    <3>1. Passing(request') = Passing(request)
      BY <1>3
    <3> QED
      BY <2>2, <3>1 DEF Bests
  <2>4. FirstRows
    BY DEF BestInv
  <2>5. PICK m \in Kept(hits, sim) : NewScore(hits, sim, m) >= sims[1][a] + sim[b]
    BY <2>1, <2>3, <2>4, PairIsKept
  <2>6. rows' # <<>> /\ Score(rows'[1]) >= NewScore(hits, sim, m)
        /\ Score(rows'[1]) \in Int /\ NewScore(hits, sim, m) \in Int
    BY <1>2, <1>3, MergedBest
  <2>7. sims[1][a] \in Int /\ sim[b] \in Int
    <3>1. sims[1] \in Similarity /\ a \in Keyframe
      BY <1>3, <2>1 DEF Passing
    <3> QED
      BY <3>1, TemporalAssumption
  <2> QED
    BY <2>5, <2>6, <2>7
<1>6. FirstRows'
  <2>1. Len(sims') # 1
    BY ONLY <1>4
  <2> QED
    BY <2>1 DEF FirstRows
<1> QED
  BY <1>3, <1>5, <1>6 DEF BestInv

LEMMA InitBest == Init => BestInv
BY DEF Init, BestInv, FirstRows

LEMMA BestStep == Inv /\ BestInv /\ [Next]_vars => BestInv'
<1> SUFFICES ASSUME Inv, BestInv, [Next]_vars PROVE BestInv'
  OBVIOUS
<1>1. CASE Ask
  <2>1. Len(sims') = 0 /\ pc' = "searching"
    BY <1>1 DEF Ask
  <2> QED
    BY <2>1 DEF BestInv, FirstRows
<1>2. CASE FirstScene
  BY <1>2, FirstSceneBest
<1>3. CASE NextScene
  BY <1>3, NextSceneBest
<1>4. CASE Answer
  <2>1. UNCHANGED <<request, sims, rows>> /\ Len(sims) = Segments(request.ends)
    BY <1>4 DEF Answer
  <2> QED
    BY <2>1 DEF BestInv, FirstRows, Bests, TwoScenes
<1>5. CASE UNCHANGED vars
  BY <1>5 DEF vars, BestInv, FirstRows, Bests, TwoScenes
<1> QED
  BY <1>1, <1>2, <1>3, <1>4, <1>5 DEF Next

\* A search of two scenes with room for every keyframe answers the best pair
\* first: though merge_scores joins a hit to one row only and keeps one hit per
\* row, and search_temporal looks for the second scene in windows around the
\* rows, no pair of keyframes in reach of each other beats the first row, for
\* any videos, filters and similarities.
THEOREM BestPairWins == Spec => []BestPairIsFirst
<1>1. Inv /\ BestInv => BestPairIsFirst
  <2> SUFFICES ASSUME Inv, BestInv, pc = "answered", TwoScenes PROVE Bests(rows)
    BY DEF BestPairIsFirst, TwoScenes, Bests
  <2>1. Len(sims) = 2
    BY DEF BestInv, TwoScenes
  <2> QED
    BY <2>1 DEF BestInv
<1>2. Init => Inv /\ BestInv
  BY InitInv, InitBest
<1>3. Inv /\ BestInv /\ [Next]_vars => (Inv /\ BestInv)'
  BY StepInv, BestStep
<1> QED
  BY <1>1, <1>2, <1>3, PTL DEF Spec
=============================================================================
